---- MODULE Spec2Model ----
(***************************************************************************)
(* A model of the openat crate: the directory iterator over a native      *)
(* directory stream (src/src/list.rs), the recursive removal engine       *)
(* (src/src/dir.rs) and the open-flag builders (src/src/builder.rs).      *)
(*                                                                         *)
(* Five specifications share the module:                                   *)
(*   SpecIter    the DirIter / Entry / DirHandle state machine, used by   *)
(*               one thread, one atomic memory access or native call per  *)
(*               step;                                                     *)
(*   SpecRace    the same machine with the entries used by two threads;   *)
(*   SpecRemove  remove_recursive and remove_recursive_atomic over an     *)
(*               inode file system, one system call per step;             *)
(*   SpecFlags   the flag builders and the open calls they end in;        *)
(*   SpecFd      the Dir values and the descriptors they own.             *)
(* Characters are their byte values, names are sequences of bytes.        *)
(***************************************************************************)
EXTENDS Integers, Sequences, FiniteSets, TLC

\* ------------------------------------------------------------ bounds
\* Longest directory listing (with "." and "..") the native stream holds.
MaxDirLen == 4
\* Entries that are kept alive at the same time.
MaxLive == 1
\* Stands for u16::MAX, the end of the range of rename candidates.
CounterMax == 2
\* Descriptors the process may hold open at the same time.
MaxFd == 2
\* Dir values that are alive at the same time.
MaxDirs == 2

\* --------------------------------------------------- program constants
NUL == 0
ChDot == 46
EBADF == 9
ENOENT == 2
DT_UNKNOWN == 0
DT_REG == 8
DT_DIR == 4
DT_LNK == 10

NullPtr == "NULL"
DirPtr == "DIR"
NoEntry == [name |-> <<>>, file_type |-> "NoEntry", ino |-> 0]
NoToken == -1

Threads == {"A", "B"}
\* The thread that owns the DirIter value (&mut self operations).
IterOwner == "A"

VARIABLES
    \* ---- the native stream
    dirents,        \* what readdir reports, in the OS's order
    loc,            \* the stream's cursor: entries consumed so far
    closedirCalls,  \* closedir calls issued on the stream
    errno,          \* errno of the iterator's thread (no other thread's is read)
    \* ---- the program
    ptr,            \* DirHandle.0, the AtomicPtr
    iterAlive,      \* the DirIter value has not been dropped
    slots,          \* the live Entry values the callers hold, no two alike
    pc,             \* per thread: the operation in progress
    ret,            \* what the operation that returned last returned, until the next call
    \* ---- history
    nativeAfterClose, \* a native call was issued on the stream after closedir
    closeCalled,      \* close or stop has been called
    closeReturned,    \* close or stop has returned
    eosOrig,          \* next returned None, no seek or rewind since
    errYielded,       \* next has yielded an error item
    mark,             \* the saved position token and what followed it
    yielded,          \* names yielded by a fresh, undisturbed iteration
    fresh,            \* no seek, rewind, close or stop has been called so far
    lastOp            \* the iterator operation that returned last

iterVars == <<dirents, loc, closedirCalls, errno, ptr, iterAlive, slots, pc, ret,
              nativeAfterClose, closeCalled, closeReturned, eosOrig, errYielded,
              mark, yielded, fresh, lastOp>>

VARIABLES
    \* ---- the file system
    fsKind,         \* inode -> "free", "dir", "file" or "symlink"
    fsEnts,         \* directory inode -> its entries, [name, ino]
    typeHints,      \* the file system fills in d_type
    \* ---- the removal in progress
    stack,          \* the remove_recursive calls, the innermost last
    outcome,        \* what the operation returned, if it has
    rmOp,           \* the operation called and its arguments
    counter,        \* remove_recursive_atomic: i
    to_delete,      \* remove_recursive_atomic: to_delete
    \* ---- history
    atCall,         \* the file system when the operation was called
    tried,          \* the counters local_rename was called with, and its results
    osCalled,       \* the operation has made a call into the OS
    \* ---- a second thread
    other           \* the call of the thread that is not running, as it stands

removeVars == <<fsKind, fsEnts, typeHints, stack, outcome, rmOp, counter, to_delete,
                atCall, tried, osCalled, other>>

VARIABLES
    builder,        \* the DirMethodFlags value in the caller's hands
    dirFlags,       \* the DirFlags value in the caller's hands
    entries,        \* the directory behind the handle: name -> kind
    lastOpen,       \* the last open call: what went to the OS and came back
    lastBuild       \* the last builder expression: its receiver, arguments and value

flagVars == <<builder, dirFlags, entries, lastOpen, lastBuild>>

VARIABLES
    fdt,            \* the descriptor table: per number, what is open under it
    dirs,           \* per descriptor number, the live Dir values that hold it
    rawFds,         \* numbers the caller holds as raw descriptors and owns
    stream,         \* the descriptor of the live DirIter's stream, if any
    \* ---- history
    fdLast,         \* the last operation on descriptors and its result
    closeBad        \* a close was issued on AT_FDCWD or on a number not open
fdVars == <<fdt, dirs, rawFds, stream, fdLast, closeBad>>

VARIABLES
    stat,           \* Metadata.stat: the status structure the value wraps
    \* ---- history
    metaLast        \* the last accessor called on the Metadata and its value
metaVars == <<stat, metaLast>>

vars == <<iterVars, removeVars, flagVars, fdVars, metaVars>>

\* ------------------------------------------------------------ names
NameDot == <<46>>
NameDotDot == <<46, 46>>
NameDotA == <<46, 97>>
NameDotDotA == <<46, 46, 97>>
NameA == <<97>>
OtherNames == {NameDotA, NameDotDotA, NameA}

\* The d_name array of a dirent: the name, its NUL, then stale bytes.
DName(name) == name \o <<NUL>> \o <<ChDot, ChDot>>

\* d_type as a file system that reports type hints gives it.
DTypeOf(name) ==
    IF name \in {NameDot, NameDotDot, NameDotDotA} THEN DT_DIR
    ELSE IF name = NameDotA THEN DT_LNK ELSE DT_REG

\* d_off: the opaque cookie telldir hands out for the entry at index i.
Cookie(i) == 5 * i + 2

Dirent(name, i) ==
    [d_name |-> DName(name), d_type |-> DTypeOf(name),
     d_ino |-> 10 + Len(name) + name[Len(name)], d_off |-> Cookie(i)]

Injective(s) == \A i, j \in DOMAIN s : i # j => s[i] # s[j]

\* The listings of a directory: "." and ".." stand anywhere in them; the
\* other names, which differ in how they begin only, keep one order.
NameRank(n) == IF n = NameDotA THEN 1 ELSE IF n = NameDotDotA THEN 2 ELSE 3
Listings ==
    { s \in UNION { [1..n -> {NameDot, NameDotDot} \cup OtherNames] :
                        n \in 2..MaxDirLen } :
        /\ Injective(s)
        /\ \E i \in DOMAIN s : s[i] = NameDot
        /\ \E i \in DOMAIN s : s[i] = NameDotDot
        /\ \A i, j \in DOMAIN s :
              (i < j /\ s[i] \in OtherNames /\ s[j] \in OtherNames)
                  => NameRank(s[i]) < NameRank(s[j]) }

\* ------------------------------------------------ the native stream (libc)
\* readdir: the entry at the cursor, or null at the end (errno untouched).
Readdir(ents, l) ==
    IF l < Len(ents)
    THEN [null |-> FALSE, ent |-> ents[l + 1], loc |-> l + 1]
    ELSE [null |-> TRUE, ent |-> ents[1], loc |-> l]

\* telldir: the cookie of the entry read last, 0 at the start.
Telldir(ents, l) == IF l = 0 THEN 0 ELSE ents[l].d_off

\* seekdir: the cursor goes behind the entry that carries the cookie.
Seekdir(ents, l, pos) ==
    IF pos = 0 THEN 0
    ELSE IF \E i \in DOMAIN ents : ents[i].d_off = pos
         THEN CHOOSE i \in DOMAIN ents : ents[i].d_off = pos
         ELSE l

Rewinddir(l) == 0

\* ------------------------------------------------------ list.rs, pure parts
DOT == <<ChDot, NUL>>
DOTDOT == <<ChDot, ChDot, NUL>>

IsDot(d_name) == SubSeq(d_name, 1, 2) = DOT
\* Mutant: the comparison leaves out the terminating NUL.
IsDotDotPrefix(d_name) == SubSeq(d_name, 1, 2) = <<ChDot, ChDot>>
IsDotDot(d_name) == SubSeq(d_name, 1, 3) = DOTDOT

\* CStr::from_ptr(d_name).to_owned(): the bytes before the first NUL.
CStrToOwned(d_name) ==
    LET n == CHOOSE i \in DOMAIN d_name :
                 d_name[i] = NUL /\ \A j \in 1..(i - 1) : d_name[j] # NUL
    IN SubSeq(d_name, 1, n - 1)

SimpleTypeOf(d_type) ==
    CASE d_type = DT_UNKNOWN -> "None"
      [] d_type = DT_REG -> "File"
      [] d_type = DT_DIR -> "Dir"
      [] d_type = DT_LNK -> "Symlink"
      [] OTHER -> "Other"

MakeEntry(e) ==
    [name |-> CStrToOwned(e.d_name), file_type |-> SimpleTypeOf(e.d_type),
     ino |-> e.d_ino]

\* Mutant: the pointer is handed out without the null check.
RawUnchecked(p) == [ok |-> TRUE, dir |-> p, err |-> 0]
\* DirHandle::raw: the checked load of the stream pointer.
Raw(p) ==
    IF p # NullPtr THEN [ok |-> TRUE, dir |-> p, err |-> 0]
    ELSE [ok |-> FALSE, dir |-> NullPtr, err |-> EBADF]

\* Mutant: the pointer is read but not replaced by null.
AtomicLoadOnly(p) == [old |-> p, new |-> p]
\* DirHandle::close, its atomic part: swap(null) hands back the old pointer.
AtomicSwapNull(p) == [old |-> p, new |-> NullPtr]

\* Mutant: errno keeps what an earlier failed call left in it.
KeepErrno(e) == e
\* next_entry: "*errno_location() = 0" before readdir.
ResetErrno(e) == 0

\* current_position: telldir's -1 is the error return.
PositionOf(pos) == IF pos = -1 THEN [ok |-> FALSE, pos |-> NoToken]
                   ELSE [ok |-> TRUE, pos |-> pos]

\* Mutant: seekdir gets the start of the stream instead of the token.
SeekTargetZero(pos) == 0
\* seek: the token's pos is what seekdir gets.
SeekTarget(pos) == pos

\* What next() yields from cursor l of an open stream: the first entry at or
\* after the cursor that is neither "." nor "..", NoEntry at the end.
RECURSIVE NextYield(_, _)
NextYield(ents, l) ==
    LET r == Readdir(ents, l) IN
    IF r.null THEN NoEntry
    ELSE IF IsDot(r.ent.d_name) \/ IsDotDot(r.ent.d_name)
         THEN NextYield(ents, r.loc)
         ELSE MakeEntry(r.ent)

\* ------------------------------------------------------------ records
IdlePc == [op |-> "none", step |-> "idle", dir |-> NullPtr, slot |-> NoEntry,
           pos |-> NoToken, startedClosed |-> FALSE]

Result(op, kind, err, entry, pos, started) ==
    [op |-> op, kind |-> kind, err |-> err, entry |-> entry, pos |-> pos,
     startedClosed |-> started]
\* The return as the caller sees it, with the history it returns into.
Returned(t, r) ==
    [op |-> r.op, kind |-> r.kind, err |-> r.err, entry |-> r.entry,
     startedClosed |-> r.startedClosed,
     eos |-> eosOrig, closed |-> closeCalled, erred |-> errYielded,
     last |-> lastOp]

NoRet == [op |-> "none", kind |-> "Unit", err |-> 0, entry |-> NoEntry,
          startedClosed |-> FALSE, eos |-> FALSE, closed |-> FALSE,
          erred |-> FALSE, last |-> "other"]

IterOps == {"next", "current_position", "seek", "rewind", "close"}
EntryOps == {"metadata", "stop"}
ClosingOps == {"close", "stop"}

\* Mutant: the stream goes with the iterator, whatever entries are alive.
IterIsLastHolder(alive, sl) == ~alive
\* The Arc<DirHandle> count is at zero: neither the DirIter nor an Entry is
\* alive.
LastHolder(alive, sl) == ~alive /\ sl = {}
Plus1Cap(n) == IF n < 2 THEN n + 1 ELSE 2
Freed == closedirCalls > 0

NoMark == [tok |-> NoToken, follow |-> NoEntry]

\* ============================================================ SpecRemove
\* ------------------------------------------------------ the file system
\* Inodes of the file systems the removal runs on.
Ino == [root |-> 1, target |-> 2, sub |-> 3, file |-> 4, link |-> 5,
        deepDir |-> 6, deepFile |-> 7, stage |-> 8, block |-> 9,
        blockFile |-> 10, outside |-> 11]
NoIno == 0
Inos == 1..11

\* File names: "t", "t.0", "s", "d", "f", "l", "e", "g", "k", and "t\0t".
Nm == [t |-> <<116>>, t0 |-> <<116, 46, 48>>, s |-> <<115>>, d |-> <<100>>,
       f |-> <<102>>, l |-> <<108>>, e |-> <<101>>, g |-> <<103>>, k |-> <<107>>,
       z |-> <<116, NUL, 116>>]

\* What the tree at the target may hold: a subdirectory, a regular file and
\* a symlink; and what the subdirectory may hold.
KidTable ==
    { [name |-> Nm.d, ino |-> Ino.sub, kind |-> "dir"],
      [name |-> Nm.f, ino |-> Ino.file, kind |-> "file"],
      [name |-> Nm.l, ino |-> Ino.link, kind |-> "symlink"] }
DeepTable ==
    { [name |-> Nm.e, ino |-> Ino.deepDir, kind |-> "dir"],
      [name |-> Nm.g, ino |-> Ino.deepFile, kind |-> "file"] }

DirEnt(k) == [name |-> k.name, ino |-> k.ino]
OtherName(n) == IF n = Nm.t THEN Nm.t0 ELSE Nm.t

\* A file system: the handle's directory holds the target tree under tname,
\* and possibly a staging directory, a non-empty directory under the other
\* name, and a file named like the file inside the tree.
MkFs(tname, kids, dkids, staging, blocker, outside) ==
    LET rootEnts ==
            {[name |-> tname, ino |-> Ino.target]}
            \cup (IF staging THEN {[name |-> Nm.s, ino |-> Ino.stage]} ELSE {})
            \cup (IF blocker THEN {[name |-> OtherName(tname), ino |-> Ino.block]}
                  ELSE {})
            \cup (IF outside THEN {[name |-> Nm.f, ino |-> Ino.outside]} ELSE {})
        used == {Ino.root, Ino.target}
                \cup {k.ino : k \in kids} \cup {k.ino : k \in dkids}
                \cup (IF staging THEN {Ino.stage} ELSE {})
                \cup (IF blocker THEN {Ino.block, Ino.blockFile} ELSE {})
                \cup (IF outside THEN {Ino.outside} ELSE {})
        kindOf(i) ==
            IF i \notin used THEN "free"
            ELSE IF i \in {Ino.root, Ino.target, Ino.sub, Ino.deepDir, Ino.stage, Ino.block}
                 THEN "dir"
            ELSE IF i = Ino.link THEN "symlink" ELSE "file"
        entsOf(i) ==
            IF i = Ino.root THEN rootEnts
            ELSE IF i = Ino.target THEN {DirEnt(k) : k \in kids}
            ELSE IF i = Ino.sub /\ Ino.sub \in used THEN {DirEnt(k) : k \in dkids}
            ELSE IF i = Ino.block /\ blocker
                 THEN {[name |-> Nm.k, ino |-> Ino.blockFile]}
            ELSE {}
    IN [kind |-> [i \in Inos |-> kindOf(i)], ents |-> [i \in Inos |-> entsOf(i)]]

Lookup(ents, d, name) ==
    IF \E e \in ents[d] : e.name = name
    THEN (CHOOSE e \in ents[d] : e.name = name).ino
    ELSE NoIno

Front(p) == SubSeq(p, 1, Len(p) - 1)
Last(p) == p[Len(p)]

\* Path resolution from directory d, no component of the path a symlink.
RECURSIVE Walk(_, _, _, _)
Walk(kind, ents, d, p) ==
    IF p = <<>> THEN [ok |-> TRUE, ino |-> d, err |-> "none"]
    ELSE IF kind[d] # "dir" THEN [ok |-> FALSE, ino |-> NoIno, err |-> "ENOTDIR"]
    ELSE LET c == Lookup(ents, d, Head(p)) IN
         IF c = NoIno THEN [ok |-> FALSE, ino |-> NoIno, err |-> "ENOENT"]
         ELSE Walk(kind, ents, c, Tail(p))

\* The inodes of the tree rooted at inode a, a included.
RECURSIVE TreeOf(_, _)
TreeOf(ents, a) ==
    {a} \cup UNION { TreeOf(ents, e.ino) : e \in ents[a] }

\* openat(d, p, O_DIRECTORY | O_NOFOLLOW | ..): only a directory opens.
OpenDir(kind, ents, d, p) ==
    LET r == Walk(kind, ents, d, p) IN
    IF ~r.ok THEN r
    ELSE IF kind[r.ino] # "dir" THEN [ok |-> FALSE, ino |-> NoIno, err |-> "ENOTDIR"]
    ELSE r

\* The file system after a call and the call's error, "none" for success.
FsRes(kind, ents, e) == [ok |-> e = "none", kind |-> kind, ents |-> ents, err |-> e]

\* unlinkat(d, p, AT_REMOVEDIR or 0)
Unlinkat(kind, ents, d, p, removedir) ==
    LET par == Walk(kind, ents, d, Front(p))
        c == Lookup(ents, par.ino, Last(p))
    IN
    IF ~par.ok THEN FsRes(kind, ents, par.err)
    ELSE IF kind[par.ino] # "dir" THEN FsRes(kind, ents, "ENOTDIR")
    ELSE IF c = NoIno THEN FsRes(kind, ents, "ENOENT")
    ELSE IF removedir /\ kind[c] # "dir" THEN FsRes(kind, ents, "ENOTDIR")
    ELSE IF removedir /\ ents[c] # {} THEN FsRes(kind, ents, "ENOTEMPTY")
    ELSE IF ~removedir /\ kind[c] = "dir" THEN FsRes(kind, ents, "EISDIR")
    ELSE FsRes([kind EXCEPT ![c] = "free"],
               [ents EXCEPT ![par.ino] = @ \ {[name |-> Last(p), ino |-> c]}], "none")

\* Mutant: a rename that leaves the old name in place, as link does.
RenameKeepsOld(kind, ents, d, old, new) ==
    LET po == Walk(kind, ents, d, Front(old))
        pn == Walk(kind, ents, d, Front(new))
        o == Lookup(ents, po.ino, Last(old))
        n == Lookup(ents, pn.ino, Last(new))
    IN
    IF ~po.ok \/ ~pn.ok \/ o = NoIno \/ n # NoIno THEN FsRes(kind, ents, "ENOENT")
    ELSE FsRes(kind, [ents EXCEPT ![pn.ino] = @ \cup {[name |-> Last(new), ino |-> o]}],
               "none")
\* renameat(d, old, d, new)
Rename(kind, ents, d, old, new) ==
    LET po == Walk(kind, ents, d, Front(old))
        pn == Walk(kind, ents, d, Front(new))
        o == Lookup(ents, po.ino, Last(old))
        n == Lookup(ents, pn.ino, Last(new))
        moved == [ents EXCEPT ![po.ino] = @ \ {[name |-> Last(old), ino |-> o]}]
        placed == [moved EXCEPT ![pn.ino] =
                      (@ \ {[name |-> Last(new), ino |-> n]})
                      \cup {[name |-> Last(new), ino |-> o]}]
    IN
    IF ~po.ok THEN FsRes(kind, ents, po.err)
    ELSE IF kind[po.ino] # "dir" THEN FsRes(kind, ents, "ENOTDIR")
    ELSE IF o = NoIno THEN FsRes(kind, ents, "ENOENT")
    ELSE IF ~pn.ok THEN FsRes(kind, ents, pn.err)
    ELSE IF kind[pn.ino] # "dir" THEN FsRes(kind, ents, "ENOTDIR")
    ELSE IF n = o THEN FsRes(kind, ents, "none")
    ELSE IF kind[o] = "dir" /\ pn.ino \in TreeOf(ents, o)
         THEN FsRes(kind, ents, "EINVAL")
    ELSE IF n = NoIno THEN FsRes(kind, placed, "none")
    ELSE IF kind[o] = "dir" /\ kind[n] # "dir" THEN FsRes(kind, ents, "ENOTDIR")
    ELSE IF kind[o] = "dir" /\ ents[n] # {} THEN FsRes(kind, ents, "ENOTEMPTY")
    ELSE IF kind[o] # "dir" /\ kind[n] = "dir" THEN FsRes(kind, ents, "EISDIR")
    ELSE FsRes([kind EXCEPT ![n] = "free"], placed, "none")

\* ------------------------------------------------------- dir.rs, pure parts
\* to_cstr(path) is Ok: the path holds no nul byte.
ToCstr(p) == \A i \in DOMAIN p : \A j \in DOMAIN p[i] : p[i][j] # NUL

\* to_cstr(path)? returns before the call into the OS.
InvalidInput(kind, ents) ==
    [ok |-> FALSE, ino |-> NoIno, kind |-> kind, ents |-> ents, err |-> "InvalidInput"]

\* A range that takes in its upper end.
CounterRangeInclusive == 0..CounterMax
\* 0u16..u16::MAX, the counters the loop of remove_recursive_atomic goes through.
CounterRange == 0..(CounterMax - 1)

\* d_type of an inode as the file system reports it, with or without hints.
FsDType(k, hints) ==
    IF ~hints THEN DT_UNKNOWN
    ELSE IF k = "dir" THEN DT_DIR
    ELSE IF k = "symlink" THEN DT_LNK ELSE DT_REG

\* The orders in which a stream may report the members es.
Orders(es) ==
    { s \in [1..Cardinality(es) -> es] : \A i, j \in DOMAIN s : i # j => s[i] # s[j] }

\* The stream fdopendir gives for directory d: ".", ".." and the members.
StreamOf(kind, d, order, hints) ==
    LET all == << [name |-> NameDot, ino |-> d], [name |-> NameDotDot, ino |-> d] >>
               \o order
    IN [i \in DOMAIN all |->
          [d_name |-> DName(all[i].name),
           d_type |-> FsDType(kind[all[i].ino], hints),
           d_ino |-> all[i].ino,
           d_off |-> Cookie(i)]]

\* The cursor after the next() that yields NextYield(ents, l).
RECURSIVE NextLoc(_, _)
NextLoc(ents, l) ==
    LET r == Readdir(ents, l) IN
    IF r.null THEN r.loc
    ELSE IF IsDot(r.ent.d_name) \/ IsDotDot(r.ent.d_name)
         THEN NextLoc(ents, r.loc)
         ELSE r.loc

\* Path::file_stem of a file name: up to the last dot, a leading dot apart.
FileStem(name) ==
    IF name = NameDotDot \/ ~\E i \in DOMAIN name : name[i] = ChDot THEN name
    ELSE LET k == CHOOSE i \in DOMAIN name :
                      name[i] = ChDot /\ \A j \in (i + 1)..Len(name) : name[j] # ChDot
         IN IF k = 1 THEN name ELSE SubSeq(name, 1, k - 1)

\* PathBuf::set_extension
SetExtension(p, ext) ==
    IF p = <<>> THEN p
    ELSE Front(p) \o << FileStem(Last(p))
                        \o (IF ext = <<>> THEN <<>> ELSE <<ChDot>> \o ext) >>

\* i.to_string() of the u16 counter
RECURSIVE U16ToString(_)
U16ToString(i) ==
    IF i < 10 THEN <<48 + i>> ELSE U16ToString(i \div 10) \o <<48 + (i % 10)>>

\* remove_recursive_atomic: to_delete before the loop.
ToDeleteInit(path, tmp_dir) ==
    IF tmp_dir = <<>> THEN path ELSE tmp_dir \o <<Last(path)>>

Frame(self, path) ==
    [self |-> self, path |-> path, step |-> "list", list |-> <<>>, l |-> 0]
Top == stack[Len(stack)]
SetTop(f) == [stack EXCEPT ![Len(stack)] = f]
Pop == SubSeq(stack, 1, Len(stack) - 1)

\* What the operation has returned: "idle" before the call, "running" in it.
Outcome(kind, e) == [kind |-> kind, err |-> e]
NoOp == [kind |-> "none", path |-> <<>>, tmp_dir |-> <<>>]
NoFs == [kind |-> [i \in Inos |-> "free"], ents |-> [i \in Inos |-> {}]]

\* Mutant: the callers wrap the error in one of their own.
FailAsOther(e) ==
    /\ stack' = <<>>
    /\ outcome' = Outcome("Err", "Other")
\* A "?" or a returned Err: the error goes up through every caller.
Fail(e) ==
    /\ stack' = <<>>
    /\ outcome' = Outcome("Err", e)

\* remove_recursive returns Ok to its caller.
ReturnOk ==
    /\ stack' = Pop
    /\ outcome' = IF Len(stack) = 1 THEN Outcome("Ok", "none") ELSE outcome

\* A thread's call: what the variables of the removal hold for it.
ThreadCall(st, oc, op, c, td, at, tr, os) ==
    [stack |-> st, outcome |-> oc, rmOp |-> op, counter |-> c, to_delete |-> td,
     atCall |-> at, tried |-> tr, osCalled |-> os]
NoCall == ThreadCall(<<>>, Outcome("idle", "none"), NoOp, 0, <<>>, NoFs, <<>>, FALSE)

RemoveIdle ==
    /\ fsKind = NoFs.kind
    /\ fsEnts = NoFs.ents
    /\ typeHints = TRUE
    /\ stack = <<>>
    /\ outcome = Outcome("idle", "none")
    /\ rmOp = NoOp
    /\ counter = 0
    /\ to_delete = <<>>
    /\ atCall = NoFs
    /\ tried = <<>>
    /\ osCalled = FALSE
    /\ other = NoCall

\* ============================================================= SpecFlags
\* Open flags are sets of bits: "|" is union, "& !" is set difference.
O_CLOEXEC == {"O_CLOEXEC"}
O_NOFOLLOW == {"O_NOFOLLOW"}
O_RDONLY == {}
O_WRONLY == {"O_WRONLY"}
O_CREAT == {"O_CREAT"}
O_EXCL == {"O_EXCL"}
O_TRUNC == {"O_TRUNC"}
O_APPEND == {"O_APPEND"}
O_PATH == {"O_PATH"}
O_DIRECTORY == {"O_DIRECTORY"}

\* The flag arguments callers give to with and without.
FlagArgs == SUBSET (O_CLOEXEC \cup O_NOFOLLOW \cup O_APPEND)

\* The directory behind the handle: a regular file f with data in it ("file",
\* "empty" once truncated), a symlink l to it, a directory d, a symlink k to
\* the directory, and no entry g.
FlagPaths == {Nm.f, Nm.l, Nm.d, Nm.k, Nm.g}
LinkTarget(name) == IF name = Nm.l THEN Nm.f ELSE Nm.d
InitialEntries ==
    [n \in FlagPaths |->
        IF n = Nm.f THEN "file"
        ELSE IF n = Nm.d THEN "dir"
        ELSE IF n \in {Nm.l, Nm.k} THEN "symlink"
        ELSE "none"]

\* What openat returns: the entry opened, or the error.
OpenRes(es, n, e) == [ok |-> e = "none", err |-> e, opened |-> n, entries |-> es]

\* openat(dirfd, name, flags) once the final component is settled.
OpenFinal(es, name, flags) ==
    IF es[name] = "none"
    THEN IF O_CREAT \subseteq flags
         THEN OpenRes([es EXCEPT ![name] = "empty"], name, "none")
         ELSE OpenRes(es, <<>>, "ENOENT")
    ELSE IF es[name] = "dir"
    THEN IF (O_WRONLY \cup O_CREAT) \cap flags # {} THEN OpenRes(es, <<>>, "EISDIR")
         ELSE OpenRes(es, name, "none")
    ELSE IF O_DIRECTORY \subseteq flags THEN OpenRes(es, <<>>, "ENOTDIR")
    ELSE IF O_TRUNC \subseteq flags THEN OpenRes([es EXCEPT ![name] = "empty"], name, "none")
         ELSE OpenRes(es, name, "none")

\* An openat that does not honour O_EXCL.
OpenatNoExcl(es, name, flags) ==
    IF es[name] = "symlink"
    THEN IF O_NOFOLLOW \subseteq flags THEN OpenRes(es, <<>>, "ELOOP")
         ELSE OpenFinal(es, LinkTarget(name), flags)
    ELSE OpenFinal(es, name, flags)

\* unlinkat(dirfd, name, 0)
UnlinkFile(es, name) ==
    IF es[name] = "none" THEN OpenRes(es, <<>>, "ENOENT")
    ELSE IF es[name] = "dir" THEN OpenRes(es, <<>>, "EISDIR")
    ELSE OpenRes([es EXCEPT ![name] = "none"], <<>>, "none")

\* openat(dirfd, name, flags): O_EXCL with O_CREAT refuses whatever exists,
\* O_NOFOLLOW refuses a symlink as the final component (O_PATH opens the link
\* itself), otherwise a symlink is followed.
Openat(es, name, flags) ==
    IF (O_CREAT \cup O_EXCL) \subseteq flags /\ es[name] # "none"
    THEN OpenRes(es, <<>>, "EEXIST")
    ELSE IF es[name] = "symlink"
    THEN IF O_NOFOLLOW \subseteq flags
         THEN IF O_DIRECTORY \subseteq flags THEN OpenRes(es, <<>>, "ENOTDIR")
              ELSE IF O_PATH \subseteq flags THEN OpenRes(es, name, "none")
              ELSE OpenRes(es, <<>>, "ELOOP")
         ELSE OpenFinal(es, LinkTarget(name), flags)
    ELSE OpenFinal(es, name, flags)

\* DirMethodFlags::new
DirMethodFlagsNew(flags) == [has |-> TRUE, flags |-> flags]
NoBuilder == [has |-> FALSE, flags |-> {}]
NoOpen == [op |-> "none", path |-> <<>>, builderFlags |-> {}, osFlags |-> {},
           ok |-> FALSE, err |-> "none", opened |-> <<>>, before |-> InitialEntries]

\* DirFlags::new
DirFlagsNew(flags) == [has |-> TRUE, flags |-> flags]
\* DirFlags::with and DirMethodFlags::with: the value returned
With(b, flags) == [b EXCEPT !.flags = @ \cup flags]
\* A without that toggles the given flags.
WithoutToggles(b, flags) == [b EXCEPT !.flags = (@ \ flags) \cup (flags \ @)]
\* DirFlags::without and DirMethodFlags::without: the value returned
Without(b, flags) == [b EXCEPT !.flags = @ \ flags]
\* The builder expression recv.with(x).without(y), recv holding the flags from.
Built(op, from, x, y, b) == [op |-> op, from |-> from, x |-> x, y |-> y, flags |-> b.flags]
NoBuild == Built("none", {}, {}, {}, NoBuilder)

\* Dir::_open_file: the flags openat gets.
OpenFileFlags(flags) == flags \cup O_CLOEXEC \cup O_NOFOLLOW
\* Mutant: _sub_dir puts O_NOFOLLOW back, as _open_file does.
SubDirFlagsNofollow(flags) == flags \cup O_DIRECTORY \cup O_NOFOLLOW
\* Dir::_sub_dir: the flags openat gets.
SubDirFlags(flags) == flags \cup O_DIRECTORY

FlagsIdle ==
    /\ builder = NoBuilder
    /\ dirFlags = NoBuilder
    /\ entries = InitialEntries
    /\ lastOpen = NoOpen
    /\ lastBuild = NoBuild

\* ================================================================ SpecFd
\* The descriptor table of the process and the Dir values that own its
\* descriptors.  What a descriptor refers to: the directory "top", its
\* subdirectory "sub", or the regular file "file".
AT_FDCWD == -100
NoFd == 0
FdNums == 1..MaxFd
DirFds == FdNums \cup {AT_FDCWD}
FreeFd == [kind |-> "free", node |-> "none", flags |-> {}]

\* What a call that may create a descriptor returns; cloexec is the
\* FD_CLOEXEC flag of the descriptor it has created.
FdRes(t, fd, e) == [ok |-> e = "none", err |-> e, fd |-> fd, fdt |-> t, cloexec |-> FALSE]

\* The kernel installs a new descriptor under the lowest free number; F_GETFL
\* reports O_DIRECTORY and O_PATH of the flags it was opened with, and the
\* descriptor is close-on-exec if O_CLOEXEC was among them (dup passes none).
Install(t, kind, node, flags) ==
    IF \A n \in FdNums : t[n].kind # "free" THEN FdRes(t, NoFd, "EMFILE")
    ELSE LET fd == CHOOSE n \in FdNums :
                       t[n].kind = "free" /\ \A m \in 1..(n - 1) : t[m].kind # "free"
         IN [FdRes([t EXCEPT ![fd] = [kind |-> kind, node |-> node,
                                      flags |-> flags \cap (O_DIRECTORY \cup O_PATH)]],
                   fd, "none")
               EXCEPT !.cloexec = O_CLOEXEC \subseteq flags]

IsOpen(t, fd) == fd \in FdNums /\ t[fd].kind # "free"

\* libc::open(path, O_DIRECTORY | flags) and libc::openat(fd, path, O_DIRECTORY | flags)
\* once the path is resolved to node.
OpenNode(t, node, flags) ==
    IF node = "none" THEN FdRes(t, NoFd, "ENOENT")
    ELSE IF node = "file" THEN FdRes(t, NoFd, "ENOTDIR")
    ELSE Install(t, "dir", node, O_DIRECTORY \cup flags)

\* libc::openat(fd, name, O_DIRECTORY | flags): name is ".", "sub", "file" or
\* "none" (no such entry); the current directory of the process is "top".
OpenatFd(t, fd, name, flags) ==
    IF fd # AT_FDCWD /\ ~IsOpen(t, fd) THEN FdRes(t, NoFd, "EBADF")
    ELSE IF fd # AT_FDCWD /\ t[fd].kind # "dir" THEN FdRes(t, NoFd, "ENOTDIR")
    ELSE LET base == IF fd = AT_FDCWD THEN "top" ELSE t[fd].node IN
         OpenNode(t, IF name = "." THEN base ELSE IF base = "top" THEN name ELSE "none",
                  flags)

\* A clone that hands the source's own descriptor back.
SameFd(t, fd) == FdRes(t, fd, "none")
\* libc::dup(fd)
Dup(t, fd) ==
    IF ~IsOpen(t, fd) THEN FdRes(t, NoFd, "EBADF")
    ELSE Install(t, t[fd].kind, t[fd].node, t[fd].flags)

\* libc::close(fd): the table afterwards.
Close(t, fd) == IF IsOpen(t, fd) THEN [t EXCEPT ![fd] = FreeFd] ELSE t
\* Mutant: giving the descriptor away closes it as well.
ForgetCloses(t, fd) == Close(t, fd)
\* mem::forget(self): no destructor runs, the table stays as it is.
Forget(t, fd) == t

\* A classifier that looks at O_PATH only.
FdTypeNoDirectoryBit(t, fd) ==
    IF ~IsOpen(t, fd) THEN [ok |-> FALSE, err |-> "EBADF", type |-> "none"]
    ELSE [ok |-> TRUE, err |-> "none",
          type |-> IF O_PATH \subseteq t[fd].flags THEN "OPathDir" ELSE "NormalDir"]
\* fd_type, the build with o_path and fcntl_o_directory
FdType(t, fd) ==
    IF ~IsOpen(t, fd) THEN [ok |-> FALSE, err |-> "EBADF", type |-> "none"]
    ELSE [ok |-> TRUE, err |-> "none",
          type |-> IF O_DIRECTORY \subseteq t[fd].flags
                   THEN IF O_PATH \subseteq t[fd].flags THEN "OPathDir" ELSE "NormalDir"
                   ELSE "Other"]

\* clone_dirfd
CloneDirfd(t, fd) ==
    LET ty == FdType(t, fd) IN
    IF ~ty.ok THEN FdRes(t, NoFd, ty.err)
    ELSE IF ty.type = "NormalDir" THEN OpenatFd(t, fd, ".", O_DIRECTORY \cup O_CLOEXEC)
    ELSE IF ty.type = "OPathDir" THEN Dup(t, fd)
    ELSE FdRes(t, NoFd, "ENOTDIR")

\* An upgrade that keeps the flags of the source.
UpgradeKeepsFlags(t, fd, flags) == CloneDirfd(t, fd)

\* clone_dirfd_upgrade
CloneDirfdUpgrade(t, fd, flags) ==
    LET ty == FdType(t, fd) IN
    IF ~ty.ok THEN FdRes(t, NoFd, ty.err)
    ELSE IF ty.type \in {"NormalDir", "OPathDir"}
         THEN OpenatFd(t, fd, ".", flags \cup O_DIRECTORY \cup O_CLOEXEC)
    ELSE FdRes(t, NoFd, "ENOTDIR")

\* clone_dirfd_downgrade
CloneDirfdDowngrade(t, fd) ==
    LET ty == FdType(t, fd) IN
    IF ~ty.ok THEN FdRes(t, NoFd, ty.err)
    ELSE IF ty.type = "NormalDir"
         THEN OpenatFd(t, fd, ".", O_PATH \cup O_DIRECTORY \cup O_CLOEXEC)
    ELSE IF ty.type = "OPathDir" THEN Dup(t, fd)
    ELSE FdRes(t, NoFd, "ENOTDIR")

\* libc::fdopendir(fd): the C library checks that fd is a directory; whether a
\* path-only descriptor is refused here (EBADF) or at the first read of the
\* stream depends on the C library.
Fdopendir(t, fd) ==
    IF ~IsOpen(t, fd) THEN {"EBADF"}
    ELSE IF t[fd].kind # "dir" THEN {"ENOTDIR"}
    ELSE IF O_PATH \subseteq t[fd].flags THEN {"none", "EBADF"}
    ELSE {"none"}

\* A read that takes a path-only descriptor for an empty directory.
ReaddirNoCheck(t, fd) == IF ~IsOpen(t, fd) THEN "EBADF" ELSE "none"
\* libc::readdir on the stream over fd: reading through a path-only
\* descriptor is refused.
ReaddirFd(t, fd) ==
    IF ~IsOpen(t, fd) \/ O_PATH \subseteq t[fd].flags THEN "EBADF" ELSE "none"

\* What the last operation was given and what it returned: the descriptor it
\* worked on and the one it returned, as the kernel knows them.
FdOp(op, t, fd, r) ==
    [op |-> op, srcFd |-> fd,
     src |-> IF IsOpen(t, fd) THEN t[fd] ELSE FreeFd,
     ok |-> r.ok, err |-> r.err, fd |-> r.fd,
     res |-> IF IsOpen(r.fdt, r.fd) THEN r.fdt[r.fd] ELSE FreeFd,
     changed |-> r.fdt # t,
     \* the call has created a descriptor that stays open across exec
     inheritable |-> r.ok /\ r.fd \in FdNums /\ ~r.cloexec]
\* The same for an operation of which only the name is kept.
PlainOp(op) == FdOp(op, [n \in FdNums |-> FreeFd], NoFd,
                    FdRes([n \in FdNums |-> FreeFd], NoFd, "none"))

FdIdle ==
    /\ fdt = [n \in FdNums |-> FreeFd]
    /\ dirs = [fd \in DirFds |-> 0]
    /\ rawFds = {}
    /\ stream = NoFd
    /\ fdLast = PlainOp("none")
    /\ closeBad = "none"

\* ------------------------------------------------------------ metadata
\* libc's file type mask and file types, as st_mode holds them.
S_IFMT == 61440
S_IFCHR == 8192
S_IFDIR == 16384
S_IFBLK == 24576
S_IFREG == 32768
S_IFLNK == 40960

\* a & b on mode_t
RECURSIVE BitAnd(_, _)
BitAnd(a, b) ==
    IF a = 0 \/ b = 0 THEN 0
    ELSE (a % 2) * (b % 2) + 2 * BitAnd(a \div 2, b \div 2)

\* Option<T>
Some(v) == [some |-> TRUE, val |-> v]
None == [some |-> FALSE, val |-> 0]

\* libc::major and libc::minor, for device numbers below 2^20 (the higher
\* parts of both are then zero).
major(dev) == (dev \div 256) % 4096
minor(dev) == dev % 256

\* Metadata::mode
Mode(s) == Some(s.st_mode)
\* Metadata::file_type
FileType(s) == Some(BitAnd(s.st_mode, S_IFMT))
\* Metadata::rdev: the match is on self.mode()?, the whole of st_mode.
Rdev(s) ==
    LET mode == Mode(s) IN
    IF ~mode.some THEN None
    ELSE IF mode.val \in {S_IFBLK, S_IFCHR} THEN Some(s.st_rdev)
    ELSE None
\* Metadata::rdev_major
RdevMajor(s) == LET r == Rdev(s) IN IF r.some THEN Some(major(r.val)) ELSE None
\* Metadata::rdev_minor
RdevMinor(s) == LET r == Rdev(s) IN IF r.some THEN Some(minor(r.val)) ELSE None

\* The status structures fstatat fills in: a file type, permission bits, and
\* for a device node its device number.
FileTypes == {S_IFREG, S_IFDIR, S_IFLNK, S_IFBLK, S_IFCHR}
PermBits == {0, 384, 432, 511}
DevNumbers == {0, 259, 2049}
Stats ==
    { [st_mode |-> ty + perm, st_rdev |-> dev] :
        ty \in FileTypes, perm \in PermBits, dev \in DevNumbers }
NoStat == [st_mode |-> 0, st_rdev |-> 0]
NoMeta == [op |-> "none", ret |-> None]

MetaIdle ==
    /\ stat = NoStat
    /\ metaLast = NoMeta

\* ------------------------------------------------------------ SpecIter
InitIter ==
    /\ \E names \in Listings :
           dirents = [i \in DOMAIN names |-> Dirent(names[i], i)]
    /\ loc = 0
    /\ closedirCalls = 0
    /\ errno \in {0, ENOENT}
    /\ ptr = DirPtr
    /\ iterAlive = TRUE
    /\ slots = {}
    /\ pc = [t \in Threads |-> IdlePc]
    /\ nativeAfterClose = "none"
    /\ closeCalled = FALSE
    /\ closeReturned = FALSE
    /\ eosOrig = FALSE
    /\ errYielded = FALSE
    /\ mark = NoMark
    /\ yielded = <<>>
    /\ fresh = TRUE
    /\ lastOp = "other"
    /\ ret = NoRet
    /\ RemoveIdle
    /\ FlagsIdle
    /\ FdIdle
    /\ MetaIdle

\* The operation returns r to its caller.
Done(t, r) ==
    /\ pc' = [pc EXCEPT ![t] = IdlePc]
    /\ ret' = Returned(t, r)

\* A thread calls an operation: the call itself touches nothing shared.
\* Nothing is specified of a program once it has used a freed stream, and
\* the model follows it no further.
Call(t, op, s) ==
    /\ pc[t].step = "idle"
    /\ nativeAfterClose = "none"
    /\ \/ /\ op \in IterOps
          /\ t = IterOwner
          /\ iterAlive
          /\ s = NoEntry
          /\ op = "seek" => mark.tok # NoToken
       \/ /\ op \in EntryOps
          /\ s \in slots
    /\ pc' = [pc EXCEPT ![t] =
                [op |-> op,
                 step |-> IF op \in ClosingOps THEN "swap" ELSE "raw",
                 dir |-> NullPtr,
                 slot |-> s,
                 pos |-> IF op = "seek" THEN mark.tok ELSE NoToken,
                 startedClosed |-> closeReturned]]
    /\ closeCalled' = (closeCalled \/ op \in ClosingOps)
    /\ eosOrig' = (eosOrig /\ op \notin {"seek", "rewind"})
    /\ fresh' = (fresh /\ op \notin {"seek", "rewind", "close", "stop"})
    /\ yielded' = IF fresh' THEN yielded ELSE <<>>
    /\ ret' = NoRet
    /\ UNCHANGED <<dirents, loc, closedirCalls, errno, ptr, iterAlive, slots,
                   nativeAfterClose, closeReturned, errYielded, mark, lastOp>>

Next_call == Call(IterOwner, "next", NoEntry)
CurrentPosition_call == Call(IterOwner, "current_position", NoEntry)
Seek_call == Call(IterOwner, "seek", NoEntry)
Rewind_call == Call(IterOwner, "rewind", NoEntry)
Close_call == Call(IterOwner, "close", NoEntry)
Metadata_call(t, s) == Call(t, "metadata", s)
Stop_call(t, s) == Call(t, "stop", s)

\* next() has its result r; the caller keeps the Entry or lets it go.
NextDone(t, r, keep) ==
    /\ Done(t, r)
    /\ eosOrig' = (eosOrig \/ r.kind = "None")
    /\ errYielded' = (errYielded \/ r.kind = "Err")
    /\ yielded' = IF fresh /\ r.kind = "Ok" THEN Append(yielded, r.entry.name)
                  ELSE yielded
    /\ slots' = IF r.kind = "Ok" /\ keep /\ Cardinality(slots) < MaxLive
                THEN slots \cup {r.entry}
                ELSE slots
    /\ lastOp' = "other"

\* Iterator::next, loop head: Arc::clone, errno reset, self.dir.raw()?
Next_raw(t) ==
    /\ pc[t].op = "next"
    /\ pc[t].step = "raw"
    /\ errno' = ResetErrno(errno)
    /\ LET r == Raw(ptr) IN
       IF r.ok
       THEN /\ pc' = [pc EXCEPT ![t].step = "native", ![t].dir = r.dir]
            /\ UNCHANGED <<ret, eosOrig, errYielded, yielded, slots, lastOp>>
       ELSE NextDone(t, Result("next", "Err", r.err, NoEntry, NoToken,
                               pc[t].startedClosed), FALSE)
    /\ UNCHANGED <<dirents, loc, closedirCalls, ptr, iterAlive, nativeAfterClose,
                   closeCalled, closeReturned, mark, fresh>>

\* Iterator::next: readdir on the loaded pointer and the match on its result.
Next_readdir(t) ==
    /\ pc[t].op = "next"
    /\ pc[t].step = "native"
    /\ IF Freed
       THEN \* readdir on a freed DIR: whatever the allocator left there
            /\ nativeAfterClose' = "next"
            /\ \E k \in {"None", "Err"} :
                 NextDone(t, Result("next", k, IF k = "Err" THEN EBADF ELSE 0,
                                    NoEntry, NoToken, pc[t].startedClosed), FALSE)
            /\ UNCHANGED loc
       ELSE LET r == Readdir(dirents, loc) IN
            /\ nativeAfterClose' = nativeAfterClose
            /\ loc' = r.loc
            /\ IF r.null
               THEN IF errno = 0
                    THEN NextDone(t, Result("next", "None", 0, NoEntry, NoToken,
                                            pc[t].startedClosed), FALSE)
                    ELSE NextDone(t, Result("next", "Err", errno, NoEntry,
                                            NoToken, pc[t].startedClosed), FALSE)
               ELSE IF IsDot(r.ent.d_name) \/ IsDotDot(r.ent.d_name)
                    THEN /\ pc' = [pc EXCEPT ![t].step = "raw"]
                         /\ UNCHANGED <<ret, eosOrig, errYielded, yielded, slots,
                                        lastOp>>
                    ELSE \E keep \in BOOLEAN :
                           NextDone(t, Result("next", "Ok", 0, MakeEntry(r.ent),
                                              NoToken, pc[t].startedClosed), keep)
    /\ UNCHANGED <<dirents, closedirCalls, errno, ptr, iterAlive, closeCalled,
                   closeReturned, mark, fresh>>

\* current_position: self.dir.raw()?
CurrentPosition_raw(t) ==
    /\ pc[t].op = "current_position"
    /\ pc[t].step = "raw"
    /\ LET r == Raw(ptr) IN
       IF r.ok
       THEN /\ pc' = [pc EXCEPT ![t].step = "native", ![t].dir = r.dir]
            /\ UNCHANGED <<ret, lastOp>>
       ELSE /\ Done(t, Result("current_position", "Err", r.err, NoEntry, NoToken,
                              pc[t].startedClosed))
            /\ lastOp' = "current_position"
    /\ UNCHANGED <<dirents, loc, closedirCalls, errno, ptr, iterAlive, slots,
                   nativeAfterClose, closeCalled, closeReturned, eosOrig,
                   errYielded, mark, yielded, fresh>>

\* current_position: telldir on the loaded pointer.
CurrentPosition_telldir(t) ==
    /\ pc[t].op = "current_position"
    /\ pc[t].step = "native"
    /\ IF Freed
       THEN /\ nativeAfterClose' = "current_position"
            /\ \E k \in {"Ok", "Err"} :
                 Done(t, Result("current_position", k,
                                IF k = "Err" THEN EBADF ELSE 0, NoEntry,
                                IF k = "Ok" THEN 0 ELSE NoToken,
                                pc[t].startedClosed))
            /\ UNCHANGED mark
       ELSE LET p == PositionOf(Telldir(dirents, loc)) IN
            /\ nativeAfterClose' = nativeAfterClose
            /\ IF p.ok
               THEN /\ Done(t, Result("current_position", "Ok", 0, NoEntry, p.pos,
                                      pc[t].startedClosed))
                    /\ mark' = [tok |-> p.pos, follow |-> NextYield(dirents, loc)]
               ELSE /\ Done(t, Result("current_position", "Err", errno, NoEntry,
                                      NoToken, pc[t].startedClosed))
                    /\ UNCHANGED mark
    /\ lastOp' = "current_position"
    /\ UNCHANGED <<dirents, loc, closedirCalls, errno, ptr, iterAlive, slots,
                   closeCalled, closeReturned, eosOrig, errYielded, yielded, fresh>>

\* seek and rewind: "if let Ok(dir) = self.dir.raw()", else nothing is done.
SeekRewind_raw(t, op) ==
    /\ pc[t].op = op
    /\ pc[t].step = "raw"
    /\ LET r == Raw(ptr) IN
       IF r.ok
       THEN /\ pc' = [pc EXCEPT ![t].step = "native", ![t].dir = r.dir]
            /\ UNCHANGED <<ret, lastOp>>
       ELSE /\ Done(t, Result(op, "Unit", 0, NoEntry, NoToken, pc[t].startedClosed))
            /\ lastOp' = IF op = "seek" THEN "seek" ELSE "other"
    /\ UNCHANGED <<dirents, loc, closedirCalls, errno, ptr, iterAlive, slots,
                   nativeAfterClose, closeCalled, closeReturned, eosOrig,
                   errYielded, mark, yielded, fresh>>

\* seek: seekdir(dir, position.pos)
Seek_seekdir(t) ==
    /\ pc[t].op = "seek"
    /\ pc[t].step = "native"
    /\ IF Freed
       THEN nativeAfterClose' = "seek" /\ UNCHANGED loc
       ELSE /\ nativeAfterClose' = nativeAfterClose
            /\ loc' = Seekdir(dirents, loc, SeekTarget(pc[t].pos))
    /\ Done(t, Result("seek", "Unit", 0, NoEntry, NoToken, pc[t].startedClosed))
    /\ lastOp' = "seek"
    /\ UNCHANGED <<dirents, closedirCalls, errno, ptr, iterAlive, slots,
                   closeCalled, closeReturned, eosOrig, errYielded, mark, yielded,
                   fresh>>

\* rewind: rewinddir(dir)
Rewind_rewinddir(t) ==
    /\ pc[t].op = "rewind"
    /\ pc[t].step = "native"
    /\ IF Freed
       THEN nativeAfterClose' = "rewind" /\ UNCHANGED loc
       ELSE /\ nativeAfterClose' = nativeAfterClose
            /\ loc' = Rewinddir(loc)
    /\ Done(t, Result("rewind", "Unit", 0, NoEntry, NoToken, pc[t].startedClosed))
    /\ lastOp' = "other"
    /\ UNCHANGED <<dirents, closedirCalls, errno, ptr, iterAlive, slots,
                   closeCalled, closeReturned, eosOrig, errYielded, mark, yielded,
                   fresh>>

\* Entry::metadata: self.dir.raw()?
Metadata_raw(t) ==
    /\ pc[t].op = "metadata"
    /\ pc[t].step = "raw"
    /\ LET r == Raw(ptr) IN
       IF r.ok
       THEN /\ pc' = [pc EXCEPT ![t].step = "native", ![t].dir = r.dir]
            /\ UNCHANGED ret
       ELSE Done(t, Result("metadata", "Err", r.err, NoEntry, NoToken,
                           pc[t].startedClosed))
    /\ UNCHANGED <<dirents, loc, closedirCalls, errno, ptr, iterAlive, slots,
                   nativeAfterClose, closeCalled, closeReturned, eosOrig,
                   errYielded, mark, yielded, fresh, lastOp>>

\* Entry::metadata: fstatat(dirfd(dir), name, AT_SYMLINK_NOFOLLOW).  The file
\* may have been unlinked since it was listed: ENOENT.
Metadata_fstatat(t) ==
    /\ pc[t].op = "metadata"
    /\ pc[t].step = "native"
    /\ nativeAfterClose' = IF Freed THEN "metadata" ELSE nativeAfterClose
    /\ \E e \in {0, IF Freed THEN EBADF ELSE ENOENT} :
         /\ errno' = IF e # 0 /\ t = IterOwner THEN e ELSE errno
         /\ Done(t, Result("metadata", IF e = 0 THEN "Ok" ELSE "Err", e,
                           NoEntry, NoToken, pc[t].startedClosed))
    /\ UNCHANGED <<dirents, loc, closedirCalls, ptr, iterAlive, slots, closeCalled,
                   closeReturned, eosOrig, errYielded, mark, yielded, fresh, lastOp>>

\* DirHandle::close, reached from DirIter::close and Entry::stop: the swap.
Close_swap(t) ==
    /\ pc[t].op \in ClosingOps
    /\ pc[t].step = "swap"
    /\ LET sw == AtomicSwapNull(ptr) IN
       /\ ptr' = sw.new
       /\ IF sw.old # NullPtr
          THEN /\ pc' = [pc EXCEPT ![t].step = "closedir", ![t].dir = sw.old]
               /\ UNCHANGED <<ret, closeReturned, lastOp>>
          ELSE /\ Done(t, Result(pc[t].op, "Unit", 0, NoEntry, NoToken,
                                 pc[t].startedClosed))
               /\ closeReturned' = TRUE
               /\ lastOp' = IF pc[t].op = "close" THEN "other" ELSE lastOp
    /\ UNCHANGED <<dirents, loc, closedirCalls, errno, iterAlive, slots,
                   nativeAfterClose, closeCalled, eosOrig, errYielded, mark,
                   yielded, fresh>>

\* closedir frees the stream: its entries and its cursor are no more.
Closedir ==
    /\ closedirCalls' = Plus1Cap(closedirCalls)
    /\ dirents' = <<>>
    /\ loc' = 0

\* DirHandle::close: closedir on the pointer the swap handed back.
Close_closedir(t) ==
    /\ pc[t].op \in ClosingOps
    /\ pc[t].step = "closedir"
    /\ Closedir
    /\ Done(t, Result(pc[t].op, "Unit", 0, NoEntry, NoToken, pc[t].startedClosed))
    /\ closeReturned' = TRUE
    /\ lastOp' = IF pc[t].op = "close" THEN "other" ELSE lastOp
    /\ UNCHANGED <<errno, ptr, iterAlive, slots, nativeAfterClose,
                   closeCalled, eosOrig, errYielded, mark, yielded, fresh>>

\* Drop for DirHandle, run by whoever drops the last Arc: self.close().
DropHandle(last) ==
    IF last
    THEN LET sw == AtomicSwapNull(ptr) IN
         /\ ptr' = sw.new
         /\ IF sw.old # NullPtr THEN Closedir
            ELSE UNCHANGED <<closedirCalls, dirents, loc>>
    ELSE UNCHANGED <<ptr, closedirCalls, dirents, loc>>

\* The DirIter value is dropped by its owner.
DropIter ==
    /\ iterAlive
    /\ pc[IterOwner].step = "idle"
    /\ iterAlive' = FALSE
    /\ DropHandle(LastHolder(FALSE, slots))
    /\ UNCHANGED <<errno, slots, pc, ret, nativeAfterClose,
                   closeCalled, closeReturned, eosOrig, errYielded, mark, yielded,
                   fresh, lastOp>>

\* An Entry is dropped; nobody is inside one of its methods.
DropEntry(s) ==
    /\ s \in slots
    /\ \A t \in Threads : pc[t].slot # s
    /\ slots' = slots \ {s}
    /\ DropHandle(LastHolder(iterAlive, slots'))
    /\ UNCHANGED <<errno, iterAlive, pc, ret, nativeAfterClose,
                   closeCalled, closeReturned, eosOrig, errYielded, mark, yielded,
                   fresh, lastOp>>

OnlyIter == UNCHANGED <<removeVars, flagVars, fdVars, metaVars>>

\* One thread owns the iterator and its entries and calls everything.
NextIter ==
    \/ OnlyIter /\ Next_call
    \/ OnlyIter /\ CurrentPosition_call
    \/ OnlyIter /\ Seek_call
    \/ OnlyIter /\ Rewind_call
    \/ OnlyIter /\ Close_call
    \/ OnlyIter /\ \E s \in slots : Metadata_call(IterOwner, s)
    \/ OnlyIter /\ \E s \in slots : Stop_call(IterOwner, s)
    \/ OnlyIter /\ Next_raw(IterOwner)
    \/ OnlyIter /\ Next_readdir(IterOwner)
    \/ OnlyIter /\ CurrentPosition_raw(IterOwner)
    \/ OnlyIter /\ CurrentPosition_telldir(IterOwner)
    \/ OnlyIter /\ SeekRewind_raw(IterOwner, "seek")
    \/ OnlyIter /\ Seek_seekdir(IterOwner)
    \/ OnlyIter /\ SeekRewind_raw(IterOwner, "rewind")
    \/ OnlyIter /\ Rewind_rewinddir(IterOwner)
    \/ OnlyIter /\ Metadata_raw(IterOwner)
    \/ OnlyIter /\ Metadata_fstatat(IterOwner)
    \/ OnlyIter /\ Close_swap(IterOwner)
    \/ OnlyIter /\ Close_closedir(IterOwner)
    \/ OnlyIter /\ DropIter
    \/ OnlyIter /\ \E s \in slots : DropEntry(s)

SpecIter == InitIter /\ [][NextIter]_vars

\* The iterator stays with its thread; the entries it yields are used from
\* both threads (Entry is Send and Sync).
NextRace ==
    \/ OnlyIter /\ Next_call
    \/ OnlyIter /\ Close_call
    \/ OnlyIter /\ \E t \in Threads, s \in slots : Metadata_call(t, s)
    \/ OnlyIter /\ \E t \in Threads, s \in slots : Stop_call(t, s)
    \/ OnlyIter /\ Next_raw(IterOwner)
    \/ OnlyIter /\ Next_readdir(IterOwner)
    \/ OnlyIter /\ \E t \in Threads : Metadata_raw(t)
    \/ OnlyIter /\ \E t \in Threads : Metadata_fstatat(t)
    \/ OnlyIter /\ \E t \in Threads : Close_swap(t)
    \/ OnlyIter /\ \E t \in Threads : Close_closedir(t)
    \/ OnlyIter /\ DropIter
    \/ OnlyIter /\ \E s \in slots : DropEntry(s)

SpecRace == InitIter /\ [][NextRace]_vars

\* ---------------------------------------------------- SpecRemove, actions
\* The iterator of SpecIter at rest.
IterIdle ==
    /\ dirents = [i \in 1..2 |-> Dirent(<<NameDot, NameDotDot>>[i], i)]
    /\ loc = 0
    /\ closedirCalls = 0
    /\ errno = 0
    /\ ptr = DirPtr
    /\ iterAlive = TRUE
    /\ slots = {}
    /\ pc = [t \in Threads |-> IdlePc]
    /\ nativeAfterClose = "none"
    /\ closeCalled = FALSE
    /\ closeReturned = FALSE
    /\ eosOrig = FALSE
    /\ errYielded = FALSE
    /\ mark = NoMark
    /\ yielded = <<>>
    /\ fresh = TRUE
    /\ lastOp = "other"
    /\ ret = NoRet
OnlyRemove == UNCHANGED <<iterVars, flagVars, fdVars, metaVars>>

InitRemove ==
    /\ \E tname \in {Nm.t, Nm.t0}, kids \in SUBSET KidTable, dkids \in SUBSET DeepTable,
          staging, blocker, outside \in BOOLEAN :
         /\ (\A k \in kids : k.ino # Ino.sub) => dkids = {}
         /\ LET fs == MkFs(tname, kids, dkids, staging, blocker, outside) IN
            /\ fsKind = fs.kind
            /\ fsEnts = fs.ents
    /\ typeHints \in BOOLEAN
    /\ stack = <<>>
    /\ outcome = Outcome("idle", "none")
    /\ rmOp = NoOp
    /\ counter = 0
    /\ to_delete = <<>>
    /\ atCall = NoFs
    /\ tried = <<>>
    /\ osCalled = FALSE
    /\ other = NoCall
    /\ IterIdle
    /\ FlagsIdle
    /\ FdIdle
    /\ MetaIdle

\* The paths the operations are called with, one of them with a nul byte.
RemovePaths == {<<Nm.t>>, <<Nm.t0>>, <<Nm.z>>}

\* handle.remove_recursive(path), handle a Dir on the root directory
RemoveRecursive_call(path) ==
    /\ outcome = Outcome("idle", "none")
    /\ rmOp' = [kind |-> "recursive", path |-> path, tmp_dir |-> <<>>]
    /\ stack' = <<Frame(Ino.root, path)>>
    /\ outcome' = Outcome("running", "none")
    /\ atCall' = [kind |-> fsKind, ents |-> fsEnts]
    /\ tried' = <<>>
    /\ osCalled' = FALSE
    /\ UNCHANGED <<other, fsKind, fsEnts, typeHints, counter, to_delete>>

\* handle.remove_recursive_atomic(path, tmp_dir)
RemoveRecursiveAtomic_call(path, tmp_dir) ==
    /\ outcome = Outcome("idle", "none")
    /\ rmOp' = [kind |-> "atomic", path |-> path, tmp_dir |-> tmp_dir]
    /\ to_delete' = ToDeleteInit(path, tmp_dir)
    /\ counter' = 0
    /\ outcome' = Outcome("running", "none")
    /\ atCall' = [kind |-> fsKind, ents |-> fsEnts]
    /\ tried' = <<>>
    /\ osCalled' = FALSE
    /\ UNCHANGED <<other, fsKind, fsEnts, typeHints, stack>>

\* remove_recursive: self.list_dir(path)?
RR_list ==
    /\ stack # <<>>
    /\ Top.step = "list"
    /\ LET r == IF ToCstr(Top.path) THEN OpenDir(fsKind, fsEnts, Top.self, Top.path)
                ELSE InvalidInput(fsKind, fsEnts)
       IN
       /\ IF r.ok
          THEN /\ \E order \in Orders(fsEnts[r.ino]) :
                    stack' = SetTop([Top EXCEPT
                                !.step = "iter",
                                !.list = StreamOf(fsKind, r.ino, order, typeHints)])
               /\ UNCHANGED outcome
          ELSE Fail(r.err)
       /\ osCalled' = (osCalled \/ ToCstr(Top.path))
    /\ UNCHANGED <<other, fsKind, fsEnts, typeHints, rmOp, counter, to_delete, atCall, tried>>

\* remove_recursive, a directory entry: self.sub_dir(path)?.remove_recursive(name)
RR_recurse ==
    /\ stack # <<>>
    /\ Top.step = "iter"
    /\ LET e == NextYield(Top.list, Top.l) IN
       /\ e # NoEntry
       /\ e.file_type = "Dir"
       /\ LET r == IF ToCstr(Top.path)
                   THEN OpenDir(fsKind, fsEnts, Top.self, Top.path)
                   ELSE InvalidInput(fsKind, fsEnts)
          IN
          /\ IF r.ok
             THEN /\ stack' = Append(SetTop([Top EXCEPT !.l = NextLoc(Top.list, Top.l)]),
                                     Frame(r.ino, <<e.name>>))
                  /\ UNCHANGED outcome
             ELSE Fail(r.err)
          /\ osCalled' = (osCalled \/ ToCstr(Top.path))
    /\ UNCHANGED <<other, fsKind, fsEnts, typeHints, rmOp, counter, to_delete, atCall, tried>>

\* remove_recursive, any other entry: self.remove_file(entry.file_name())
RR_remove_file ==
    /\ stack # <<>>
    /\ Top.step = "iter"
    /\ LET e == NextYield(Top.list, Top.l) IN
       /\ e # NoEntry
       /\ e.file_type # "Dir"
       /\ LET u == IF ToCstr(<<e.name>>)
                   THEN Unlinkat(fsKind, fsEnts, Top.self, <<e.name>>, FALSE)
                   ELSE InvalidInput(fsKind, fsEnts)
          IN
          /\ fsKind' = u.kind
          /\ fsEnts' = u.ents
          /\ IF u.ok
             THEN /\ stack' = SetTop([Top EXCEPT !.l = NextLoc(Top.list, Top.l)])
                  /\ UNCHANGED outcome
             ELSE Fail(u.err)
          /\ osCalled' = (osCalled \/ ToCstr(<<e.name>>))
    /\ UNCHANGED <<other, typeHints, rmOp, counter, to_delete, atCall, tried>>

\* remove_recursive, the listing is through: self.remove_dir(path)
RR_remove_dir ==
    /\ stack # <<>>
    /\ Top.step = "iter"
    /\ NextYield(Top.list, Top.l) = NoEntry
    /\ LET u == IF ToCstr(Top.path)
                THEN Unlinkat(fsKind, fsEnts, Top.self, Top.path, TRUE)
                ELSE InvalidInput(fsKind, fsEnts)
       IN
       /\ fsKind' = u.kind
       /\ fsEnts' = u.ents
       /\ IF u.ok THEN ReturnOk ELSE Fail(u.err)
       /\ osCalled' = (osCalled \/ ToCstr(Top.path))
    /\ UNCHANGED <<other, typeHints, rmOp, counter, to_delete, atCall, tried>>

\* remove_recursive_atomic, one turn of the loop: set_extension, local_rename,
\* and on success the call of remove_recursive(&to_delete).
RRA_rename ==
    /\ rmOp.kind = "atomic"
    /\ outcome = Outcome("running", "none")
    /\ stack = <<>>
    /\ counter \in CounterRange
    /\ LET td == SetExtension(to_delete, U16ToString(counter))
           c == ToCstr(rmOp.path) /\ ToCstr(td)
           r == IF c THEN Rename(fsKind, fsEnts, Ino.root, rmOp.path, td)
                ELSE InvalidInput(fsKind, fsEnts)
       IN
       /\ to_delete' = td
       /\ fsKind' = r.kind
       /\ fsEnts' = r.ents
       /\ IF r.ok
          THEN stack' = <<Frame(Ino.root, td)>> /\ UNCHANGED counter
          ELSE counter' = counter + 1 /\ UNCHANGED stack
       /\ tried' = Append(tried, [i |-> counter, new |-> td, ok |-> r.ok])
       /\ osCalled' = (osCalled \/ c)
    /\ UNCHANGED <<other, typeHints, rmOp, outcome, atCall>>

\* remove_recursive_atomic: the loop is through, no rename succeeded.
RRA_exhausted ==
    /\ rmOp.kind = "atomic"
    /\ outcome = Outcome("running", "none")
    /\ stack = <<>>
    /\ counter \notin CounterRange
    /\ outcome' = Outcome("Err", "Other")
    /\ UNCHANGED <<other, fsKind, fsEnts, typeHints, stack, rmOp, counter, to_delete, atCall,
                   tried, osCalled>>

NextRemove ==
    \/ OnlyRemove /\ \E path \in RemovePaths : RemoveRecursive_call(path)
    \/ OnlyRemove /\ \E path \in RemovePaths, tmp_dir \in {<<>>, <<Nm.s>>} :
                      RemoveRecursiveAtomic_call(path, tmp_dir)
    \/ OnlyRemove /\ RR_list
    \/ OnlyRemove /\ RR_recurse
    \/ OnlyRemove /\ RR_remove_file
    \/ OnlyRemove /\ RR_remove_dir
    \/ OnlyRemove /\ RRA_rename
    \/ OnlyRemove /\ RRA_exhausted

SpecRemove == InitRemove /\ [][NextRemove]_vars

\* Two threads call remove_recursive_atomic on the same handle (the methods
\* take &self).  The handle's directory holds the directories "t" and "t.0"
\* and an empty staging directory "s"; "t.0" is empty or holds one entry, "k"
\* or "d"; a file system with type hints.
InitPair ==
    /\ \E kids \in SUBSET KidTable, bk \in {"none", "dir", "file"},
          bname \in {Nm.k, Nm.d} :
         LET fs == MkFs(Nm.t, kids, {}, TRUE, TRUE, FALSE) IN
         /\ bk = "none" => bname = Nm.k
         /\ fsKind = [fs.kind EXCEPT ![Ino.blockFile] = IF bk = "none" THEN "free" ELSE bk]
         /\ fsEnts = [fs.ents EXCEPT ![Ino.block] =
                         IF bk = "none" THEN {}
                         ELSE {[name |-> bname, ino |-> Ino.blockFile]}]
    /\ typeHints = TRUE
    /\ stack = <<>>
    /\ outcome = Outcome("idle", "none")
    /\ rmOp = NoOp
    /\ counter = 0
    /\ to_delete = <<>>
    /\ atCall = NoFs
    /\ tried = <<>>
    /\ osCalled = FALSE
    /\ other = NoCall
    /\ IterIdle
    /\ FlagsIdle
    /\ FdIdle
    /\ MetaIdle

\* The scheduler lets the other thread run: between two calls into the OS of
\* one thread the other thread may make any number of its own.
Switch ==
    /\ other' = ThreadCall(stack, outcome, rmOp, counter, to_delete, atCall, tried, osCalled)
    /\ stack' = other.stack
    /\ outcome' = other.outcome
    /\ rmOp' = other.rmOp
    /\ counter' = other.counter
    /\ to_delete' = other.to_delete
    /\ atCall' = other.atCall
    /\ tried' = other.tried
    /\ osCalled' = other.osCalled
    /\ UNCHANGED <<fsKind, fsEnts, typeHints>>

NextPair ==
    \/ OnlyRemove /\ \E path \in RemovePaths, tmp_dir \in {<<>>, <<Nm.s>>} :
                      RemoveRecursiveAtomic_call(path, tmp_dir)
    \/ OnlyRemove /\ RR_list
    \/ OnlyRemove /\ RR_recurse
    \/ OnlyRemove /\ RR_remove_file
    \/ OnlyRemove /\ RR_remove_dir
    \/ OnlyRemove /\ RRA_rename
    \/ OnlyRemove /\ RRA_exhausted
    \/ OnlyRemove /\ Switch

SpecPair == InitPair /\ [][NextPair]_vars

\* Another process, while remove_recursive("t") is running, renames "t" away
\* to "k" and renames the directory "t.0" to "t".
Env_retarget ==
    /\ rmOp.kind = "recursive"
    /\ outcome.kind = "running"
    /\ LET away == Rename(fsKind, fsEnts, Ino.root, <<Nm.t>>, <<Nm.k>>)
           back == Rename(away.kind, away.ents, Ino.root, <<Nm.t0>>, <<Nm.t>>)
       IN
       /\ away.ok
       /\ back.ok
       /\ fsKind' = back.kind
       /\ fsEnts' = back.ents
    /\ UNCHANGED <<typeHints, stack, outcome, rmOp, counter, to_delete, atCall, tried,
                   osCalled, other>>

NextRetarget ==
    \/ OnlyRemove /\ \E path \in RemovePaths : RemoveRecursive_call(path)
    \/ OnlyRemove /\ RR_list
    \/ OnlyRemove /\ RR_recurse
    \/ OnlyRemove /\ RR_remove_file
    \/ OnlyRemove /\ RR_remove_dir
    \/ OnlyRemove /\ Env_retarget

SpecRetarget == InitPair /\ [][NextRetarget]_vars

\* ----------------------------------------------------- SpecFlags, actions
OnlyFlags == UNCHANGED <<iterVars, removeVars, fdVars, metaVars>>

InitFlags ==
    /\ FlagsIdle
    /\ IterIdle
    /\ RemoveIdle
    /\ FdIdle
    /\ MetaIdle

\* Dir::with(flags)
Dir_with(flags) ==
    /\ builder' = DirMethodFlagsNew(O_CLOEXEC \cup O_NOFOLLOW \cup flags)
    /\ lastBuild' = Built("Dir::with", O_CLOEXEC \cup O_NOFOLLOW, flags, {}, builder')
    /\ lastOpen' = NoOpen
    /\ UNCHANGED <<dirFlags, entries>>

\* Dir::without(flags)
Dir_without(flags) ==
    /\ builder' = DirMethodFlagsNew((O_CLOEXEC \cup O_NOFOLLOW) \ flags)
    /\ lastBuild' = Built("Dir::without", O_CLOEXEC \cup O_NOFOLLOW, {}, flags, builder')
    /\ lastOpen' = NoOpen
    /\ UNCHANGED <<dirFlags, entries>>

\* DirMethodFlags::with(flags), the value kept in place of the receiver
DirMethodFlags_with(flags) ==
    /\ builder.has
    /\ builder' = With(builder, flags)
    /\ lastBuild' = Built("with", builder.flags, flags, {}, builder')
    /\ lastOpen' = NoOpen
    /\ UNCHANGED <<dirFlags, entries>>

\* DirMethodFlags::without(flags), the value kept in place of the receiver
DirMethodFlags_without(flags) ==
    /\ builder.has
    /\ builder' = Without(builder, flags)
    /\ lastBuild' = Built("without", builder.flags, {}, flags, builder')
    /\ lastOpen' = NoOpen
    /\ UNCHANGED <<dirFlags, entries>>

\* b.with(x).without(y) on the DirMethodFlags b: with and without take self by
\* value and b is Copy, so the caller still has b.
DirMethodFlags_with_without(x, y) ==
    /\ builder.has
    /\ lastBuild' = Built("DirMethodFlags", builder.flags, x, y, Without(With(builder, x), y))
    /\ lastOpen' = NoOpen
    /\ UNCHANGED <<builder, dirFlags, entries>>

\* let b = Dir::flags().with(x).without(y)
Dir_flags(x, y) ==
    /\ dirFlags' = Without(With(DirFlagsNew(O_CLOEXEC), x), y)
    /\ lastBuild' = Built("Dir::flags", O_CLOEXEC, x, y, dirFlags')
    /\ lastOpen' = NoOpen
    /\ UNCHANGED <<builder, entries>>

\* b.with(x).without(y) on the DirFlags b
DirFlags_with_without(x, y) ==
    /\ dirFlags.has
    /\ lastBuild' = Built("DirFlags", dirFlags.flags, x, y, Without(With(dirFlags, x), y))
    /\ lastOpen' = NoOpen
    /\ UNCHANGED <<builder, dirFlags, entries>>

\* The openat call of op and what the caller gets back.
OsOpen(op, path, builderFlags, osFlags) ==
    LET r == Openat(entries, path, osFlags) IN
    /\ entries' = r.entries
    /\ lastOpen' = [op |-> op, path |-> path, builderFlags |-> builderFlags,
                    osFlags |-> osFlags, ok |-> r.ok, err |-> r.err,
                    opened |-> r.opened, before |-> entries]
    /\ lastBuild' = NoBuild
    /\ UNCHANGED <<builder, dirFlags>>

\* Dir::_open_file(path, flags, mode)
OpenFile(op, path, builderFlags, flags) ==
    OsOpen(op, path, builderFlags, OpenFileFlags(flags))

\* DirMethodFlags::open_file(path)
DirMethodFlags_open_file(path) ==
    /\ builder.has
    /\ OpenFile("open_file", path, builder.flags, builder.flags \cup O_RDONLY)

\* DirMethodFlags::write_file(path, mode)
DirMethodFlags_write_file(path) ==
    /\ builder.has
    /\ OpenFile("write_file", path, builder.flags,
                builder.flags \cup O_CREAT \cup O_WRONLY \cup O_TRUNC)

\* DirMethodFlags::append_file(path, mode)
DirMethodFlags_append_file(path) ==
    /\ builder.has
    /\ OpenFile("append_file", path, builder.flags,
                builder.flags \cup O_CREAT \cup O_WRONLY \cup O_APPEND)

\* DirMethodFlags::new_file(path, mode)
DirMethodFlags_new_file(path) ==
    /\ builder.has
    /\ OpenFile("new_file", path, builder.flags,
                builder.flags \cup O_CREAT \cup O_EXCL \cup O_WRONLY)

\* DirMethodFlags::sub_dir(path)
DirMethodFlags_sub_dir(path) ==
    /\ builder.has
    /\ OsOpen("flags_sub_dir", path, builder.flags, SubDirFlags(builder.flags))

\* Dir::sub_dir(path)
Dir_sub_dir(path) ==
    OsOpen("sub_dir", path, O_CLOEXEC \cup O_NOFOLLOW,
           SubDirFlags(O_PATH \cup O_CLOEXEC \cup O_NOFOLLOW))

\* DirFlags::open(path), the path taken from the handle's directory
DirFlags_open(path) ==
    /\ dirFlags.has
    /\ OsOpen("DirFlags::open", path, dirFlags.flags, O_DIRECTORY \cup dirFlags.flags)

\* Dir::new_file(path, mode)
Dir_new_file(path) ==
    OpenFile("Dir::new_file", path, {}, O_CREAT \cup O_EXCL \cup O_WRONLY)

\* Dir::remove_file(path)
Dir_remove_file(path) ==
    LET r == UnlinkFile(entries, path) IN
    /\ entries' = r.entries
    /\ lastOpen' = [NoOpen EXCEPT !.op = "remove_file", !.path = path, !.ok = r.ok,
                                  !.err = r.err, !.before = entries]
    /\ lastBuild' = NoBuild
    /\ UNCHANGED <<builder, dirFlags>>

NextFlags ==
    \/ OnlyFlags /\ \E flags \in FlagArgs : Dir_with(flags)
    \/ OnlyFlags /\ \E flags \in FlagArgs : Dir_without(flags)
    \/ OnlyFlags /\ \E flags \in FlagArgs : DirMethodFlags_with(flags)
    \/ OnlyFlags /\ \E flags \in FlagArgs : DirMethodFlags_without(flags)
    \/ OnlyFlags /\ \E path \in FlagPaths : DirMethodFlags_open_file(path)
    \/ OnlyFlags /\ \E path \in FlagPaths : DirMethodFlags_write_file(path)
    \/ OnlyFlags /\ \E path \in FlagPaths : DirMethodFlags_append_file(path)
    \/ OnlyFlags /\ \E path \in FlagPaths : DirMethodFlags_new_file(path)
    \/ OnlyFlags /\ \E path \in FlagPaths : DirMethodFlags_sub_dir(path)
    \/ OnlyFlags /\ \E path \in FlagPaths : Dir_sub_dir(path)
    \/ OnlyFlags /\ \E path \in FlagPaths : Dir_new_file(path)
    \/ OnlyFlags /\ \E path \in FlagPaths : Dir_remove_file(path)

SpecFlags == InitFlags /\ [][NextFlags]_vars

\* The builders by themselves, with the open calls that create nothing.
NextBuilder ==
    \/ OnlyFlags /\ \E flags \in FlagArgs : Dir_with(flags)
    \/ OnlyFlags /\ \E flags \in FlagArgs : Dir_without(flags)
    \/ OnlyFlags /\ \E flags \in FlagArgs : DirMethodFlags_with(flags)
    \/ OnlyFlags /\ \E flags \in FlagArgs : DirMethodFlags_without(flags)
    \/ OnlyFlags /\ \E x, y \in FlagArgs : DirMethodFlags_with_without(x, y)
    \/ OnlyFlags /\ \E x, y \in FlagArgs : Dir_flags(x, y)
    \/ OnlyFlags /\ \E x, y \in FlagArgs : DirFlags_with_without(x, y)
    \/ OnlyFlags /\ \E path \in FlagPaths : DirMethodFlags_open_file(path)
    \/ OnlyFlags /\ \E path \in FlagPaths : DirFlags_open(path)

SpecBuilder == InitFlags /\ [][NextBuilder]_vars

\* ------------------------------------------------------- SpecFd, actions
OnlyFd == UNCHANGED <<iterVars, removeVars, flagVars, metaVars>>

InitFd ==
    /\ FdIdle
    /\ MetaIdle
    /\ IterIdle
    /\ RemoveIdle
    /\ FlagsIdle

\* The caller may keep one more Dir value.
HasSlot == Cardinality({p \in DirFds \X (1..MaxDirs) : p[2] <= dirs[p[1]]}) < MaxDirs

\* Ok(Dir(fd)) or Err(e) goes to the caller, who keeps the Dir.
ReturnDir(op, fd, r) ==
    /\ fdt' = r.fdt
    /\ dirs' = IF r.ok THEN [dirs EXCEPT ![r.fd] = @ + 1] ELSE dirs
    /\ fdLast' = IF fd = NoFd
                  THEN [PlainOp(op) EXCEPT
                           !.inheritable = r.ok /\ r.fd \in FdNums /\ ~r.cloexec]
                  ELSE FdOp(op, fdt, fd, r)
    /\ UNCHANGED <<rawFds, stream, closeBad>>

\* Dir::cwd()
Dir_cwd ==
    /\ HasSlot
    /\ ReturnDir("cwd", NoFd, FdRes(fdt, AT_FDCWD, "none"))

\* Dir::open(path)
Dir_open(node) ==
    /\ HasSlot
    /\ ReturnDir("open", NoFd, OpenNode(fdt, node, O_PATH \cup O_CLOEXEC))

\* Dir::flags().open(path)
Dir_flags_open(node) ==
    /\ HasSlot
    /\ ReturnDir("flags_open", NoFd, OpenNode(fdt, node, O_CLOEXEC))

\* Dir::sub_dir(path) of a Dir that holds fd
Dir_sub_dir_of(fd, name) ==
    /\ dirs[fd] > 0
    /\ HasSlot
    /\ ReturnDir("sub_dir", fd,
                 OpenatFd(fdt, fd, name, O_PATH \cup O_CLOEXEC \cup O_NOFOLLOW))

\* Dir::try_clone
Dir_try_clone(fd) ==
    /\ dirs[fd] > 0
    /\ HasSlot
    /\ ReturnDir("try_clone", fd, CloneDirfd(fdt, fd))

\* Dir::clone_upgrade
Dir_clone_upgrade(fd) ==
    /\ dirs[fd] > 0
    /\ HasSlot
    /\ ReturnDir("clone_upgrade", fd, CloneDirfdUpgrade(fdt, fd, {}))

\* Dir::clone_downgrade
Dir_clone_downgrade(fd) ==
    /\ dirs[fd] > 0
    /\ HasSlot
    /\ ReturnDir("clone_downgrade", fd, CloneDirfdDowngrade(fdt, fd))

\* IntoRawFd for Dir: the caller gets the number, the Dir is forgotten.
\* AT_FDCWD is a constant: no one owns it, every caller has it.
Dir_into_raw_fd(fd) ==
    /\ dirs[fd] > 0
    /\ fdt' = Forget(fdt, fd)
    /\ dirs' = [dirs EXCEPT ![fd] = @ - 1]
    /\ rawFds' = rawFds \cup ({fd} \cap FdNums)
    /\ fdLast' = FdOp("into_raw_fd", fdt, fd, FdRes(fdt', fd, "none"))
    /\ UNCHANGED <<stream, closeBad>>

\* FromRawFd for Dir, on a descriptor the caller owns and gives away, or on
\* AT_FDCWD
Dir_from_raw_fd(fd) ==
    /\ fd \in rawFds \/ fd = AT_FDCWD
    /\ HasSlot
    /\ rawFds' = rawFds \ {fd}
    /\ dirs' = [dirs EXCEPT ![fd] = @ + 1]
    /\ fdLast' = PlainOp("from_raw_fd")
    /\ UNCHANGED <<fdt, stream, closeBad>>

\* Dir::from_raw_fd_checked, on a descriptor the caller owns, on AT_FDCWD or
\* on a number that is no descriptor any more
Dir_from_raw_fd_checked(fd) ==
    /\ fd \in rawFds \/ ~IsOpen(fdt, fd)
    /\ HasSlot
    /\ LET ty == FdType(fdt, fd)
           r == IF ~ty.ok THEN FdRes(fdt, NoFd, ty.err)
                ELSE IF ty.type \in {"NormalDir", "OPathDir"} THEN FdRes(fdt, fd, "none")
                ELSE FdRes(fdt, NoFd, "ENOTDIR")
       IN
       /\ dirs' = IF r.ok THEN [dirs EXCEPT ![fd] = @ + 1] ELSE dirs
       /\ rawFds' = IF r.ok THEN rawFds \ {fd} ELSE rawFds
       /\ fdLast' = FdOp("from_raw_fd_checked", fdt, fd, r)
    /\ UNCHANGED <<fdt, stream, closeBad>>

\* dir.open_file(path)?.into_raw_fd(): the caller gets the descriptor of a file
Dir_open_file_into_raw_fd(fd) ==
    /\ dirs[fd] > 0
    /\ LET r == IF fd # AT_FDCWD /\ ~IsOpen(fdt, fd)
                THEN FdRes(fdt, NoFd, "EBADF")
                ELSE Install(fdt, "file", "file", O_CLOEXEC \cup O_NOFOLLOW)
       IN
       /\ fdt' = r.fdt
       /\ rawFds' = IF r.ok THEN rawFds \cup {r.fd} ELSE rawFds
       /\ fdLast' = PlainOp("open_file")
    /\ UNCHANGED <<dirs, stream, closeBad>>

\* Dir::list: the Dir is forgotten, open_dirfd(fd) makes the stream or fails.
Dir_list(fd) ==
    /\ dirs[fd] > 0
    /\ stream = NoFd
    /\ \E e \in Fdopendir(fdt, fd) :
         /\ stream' = IF e = "none" THEN fd ELSE NoFd
         /\ fdLast' = FdOp("list", fdt, fd, FdRes(Forget(fdt, fd), fd, e))
    /\ fdt' = Forget(fdt, fd)
    /\ dirs' = [dirs EXCEPT ![fd] = @ - 1]
    /\ UNCHANGED <<rawFds, closeBad>>

\* Iterator for DirIter::next on the stream list returned
DirIter_next_fd ==
    /\ stream # NoFd
    /\ fdLast' = FdOp("next", fdt, stream, FdRes(fdt, stream, ReaddirFd(fdt, stream)))
    /\ UNCHANGED <<fdt, dirs, rawFds, stream, closeBad>>

\* close(fd) as a destructor issues it: what is noted about misuse.
CloseNote(fd) ==
    IF fd = AT_FDCWD THEN "AT_FDCWD"
    ELSE IF ~IsOpen(fdt, fd) THEN "EBADF"
    ELSE closeBad

\* Drop for DirHandle of the stream: closedir closes the descriptor.
DirIter_drop_fd ==
    /\ stream # NoFd
    /\ closeBad' = CloseNote(stream)
    /\ fdt' = Close(fdt, stream)
    /\ stream' = NoFd
    /\ fdLast' = PlainOp("drop_iter")
    /\ UNCHANGED <<dirs, rawFds>>

\* Drop for Dir
Dir_drop(fd) ==
    /\ dirs[fd] > 0
    /\ IF fd # AT_FDCWD
       THEN /\ closeBad' = CloseNote(fd)
            /\ fdt' = Close(fdt, fd)
       ELSE UNCHANGED <<fdt, closeBad>>
    /\ dirs' = [dirs EXCEPT ![fd] = @ - 1]
    /\ fdLast' = FdOp("drop", fdt, fd, FdRes(fdt', NoFd, "none"))
    /\ UNCHANGED <<rawFds, stream>>

NextFd ==
    \/ OnlyFd /\ Dir_cwd
    \/ OnlyFd /\ \E node \in {"top", "file", "none"} : Dir_open(node)
    \/ OnlyFd /\ \E node \in {"top", "file", "none"} : Dir_flags_open(node)
    \/ OnlyFd /\ \E fd \in DirFds, name \in {"sub", "file", "none"} : Dir_sub_dir_of(fd, name)
    \/ OnlyFd /\ \E fd \in DirFds : Dir_try_clone(fd)
    \/ OnlyFd /\ \E fd \in DirFds : Dir_clone_upgrade(fd)
    \/ OnlyFd /\ \E fd \in DirFds : Dir_clone_downgrade(fd)
    \/ OnlyFd /\ \E fd \in DirFds : Dir_into_raw_fd(fd)
    \/ OnlyFd /\ \E fd \in DirFds : Dir_from_raw_fd(fd)
    \/ OnlyFd /\ \E fd \in DirFds : Dir_from_raw_fd_checked(fd)
    \/ OnlyFd /\ \E fd \in DirFds : Dir_open_file_into_raw_fd(fd)
    \/ OnlyFd /\ \E fd \in DirFds : Dir_list(fd)
    \/ OnlyFd /\ DirIter_next_fd
    \/ OnlyFd /\ DirIter_drop_fd
    \/ OnlyFd /\ \E fd \in DirFds : Dir_drop(fd)

SpecFd == InitFd /\ [][NextFd]_vars

\* ----------------------------------------------------- SpecMeta, actions
OnlyMeta == UNCHANGED <<iterVars, removeVars, flagVars, fdVars>>

InitMeta ==
    /\ MetaIdle
    /\ FdIdle
    /\ IterIdle
    /\ RemoveIdle
    /\ FlagsIdle

\* Dir::metadata: fstatat fills a stat, metadata::new wraps it.
Dir_metadata ==
    /\ \E s \in Stats :
         /\ s.st_rdev # 0 => BitAnd(s.st_mode, S_IFMT) \in {S_IFBLK, S_IFCHR}
         /\ stat' = s
    /\ metaLast' = NoMeta

Metadata_mode ==
    /\ stat # NoStat
    /\ metaLast' = [op |-> "mode", ret |-> Mode(stat)]
    /\ UNCHANGED stat

Metadata_file_type ==
    /\ stat # NoStat
    /\ metaLast' = [op |-> "file_type", ret |-> FileType(stat)]
    /\ UNCHANGED stat

Metadata_rdev ==
    /\ stat # NoStat
    /\ metaLast' = [op |-> "rdev", ret |-> Rdev(stat)]
    /\ UNCHANGED stat

Metadata_rdev_major ==
    /\ stat # NoStat
    /\ metaLast' = [op |-> "rdev_major", ret |-> RdevMajor(stat)]
    /\ UNCHANGED stat

Metadata_rdev_minor ==
    /\ stat # NoStat
    /\ metaLast' = [op |-> "rdev_minor", ret |-> RdevMinor(stat)]
    /\ UNCHANGED stat

NextMeta ==
    \/ OnlyMeta /\ Dir_metadata
    \/ OnlyMeta /\ Metadata_mode
    \/ OnlyMeta /\ Metadata_file_type
    \/ OnlyMeta /\ Metadata_rdev
    \/ OnlyMeta /\ Metadata_rdev_major
    \/ OnlyMeta /\ Metadata_rdev_minor

SpecMeta == InitMeta /\ [][NextMeta]_vars

\* ================================================================ claims
\* The names of the directory's members as the file system holds them.
MemberNames ==
    { n \in {NameDot, NameDotDot} \cup OtherNames :
        \E i \in DOMAIN dirents : dirents[i].d_name = DName(n) }
SeqRange(q) == { q[i] : i \in DOMAIN q }
\* The item a next() call returned is the entry e (NoEntry: end of stream).
ReturnedItemIs(e) ==
    IF e = NoEntry THEN ret.kind = "None"
    ELSE ret.kind = "Ok" /\ ret.entry = e

\* C1 (as claimed): under every interleaving of a close with Entry::metadata
\* on another thread, no native call of metadata (dirfd/fstatat) is issued on
\* the stream pointer after closedir has been called on it.
C1_NoMetadataCallAfterClosedir == nativeAfterClose # "metadata"

\* C2: for any interleaving of DirIter::close, Entry::stop and the drops of
\* the iterator and its entries, closedir is invoked at most once on the
\* stream, and every close or stop call returns without an error.
C2_ClosedirAtMostOnce ==
    /\ closedirCalls <= 1
    /\ ret.op \in ClosingOps => ret.kind = "Unit"
\* A stop that began after an earlier close had returned has itself returned,
\* and the iterator and every entry have been dropped since.
C2_Witness ==
    /\ closedirCalls = 1
    /\ ret.op = "stop"
    /\ ret.startedClosed
    /\ LastHolder(iterAlive, slots)

\* C3: once close or stop has returned, an operation called afterwards never
\* reaches a native call on the stream, and next, current_position and
\* metadata return the bad-descriptor error.
C3_ClosedMeansEBADF ==
    /\ \A t \in Threads :
         pc[t].startedClosed => pc[t].step \notin {"native", "closedir"}
    /\ (ret.startedClosed /\ ret.op \in {"next", "current_position", "metadata"})
          => (ret.kind = "Err" /\ ret.err = EBADF)
\* metadata was called on an entry after its stream had been closed.
C3_Witness ==
    /\ ret.op = "metadata"
    /\ ret.startedClosed
    /\ ret.kind = "Err"

\* C7: next never yields "." or "..", an undisturbed iteration yields no
\* error item, and once it has reached the end of the stream it has yielded
\* exactly the member names other than "." and "..", each once (the members
\* are those of the stream, read while the stream is there).
C7_YieldsExactlyMembers ==
    /\ (ret.op = "next" /\ ret.kind = "Ok")
          => ret.entry.name \notin {NameDot, NameDotDot}
    /\ fresh => ~errYielded
    /\ (fresh /\ eosOrig /\ ~Freed)
          => /\ SeqRange(yielded) = MemberNames \ {NameDot, NameDotDot}
             /\ Injective(yielded)
\* A complete iteration of a directory that holds "..a" beside "." and "..".
C7_Witness ==
    /\ fresh
    /\ eosOrig
    /\ ~Freed
    /\ NameDotDotA \in SeqRange(yielded)
    /\ {NameDot, NameDotDot} \subseteq MemberNames

\* C8 (as claimed): once next has returned None, every later next returns
\* None as long as no seek or rewind is called in between.
C8_NoneStaysNone ==
    (ret.op = "next" /\ ret.eos) => ret.kind = "None"
\* C8 (amended): once next has returned None, every later next returns None
\* as long as no seek or rewind is called in between and neither close nor
\* stop has been called.
C8_NoneStaysNoneWhileOpen ==
    (ret.op = "next" /\ ret.eos /\ ~ret.closed) => ret.kind = "None"
\* A next called after the end of the stream had been reported, on an open
\* stream, has returned None again.
C8_Witness ==
    /\ ret.op = "next"
    /\ ret.eos
    /\ ~ret.closed
    /\ ret.kind = "None"

\* C9 (as claimed): after next has yielded an error item, every later next
\* returns None.
C9_ExhaustedAfterError ==
    (ret.op = "next" /\ ret.erred) => ret.kind = "None"

\* C10: on an open iterator (its stream not closed), a seek to the token
\* current_position returned puts the cursor where the next next() yields the entry that followed the
\* token: right after the seek the stream stands before that entry, the
\* next() after the seek returns it, and it is the entry next() returns when
\* no seek is made.
C10_SeekReplays ==
    /\ (ret.op = "seek" /\ ~ret.closed /\ ~Freed /\ pc[IterOwner].step = "idle")
          => NextYield(dirents, loc) = mark.follow
    /\ (ret.op = "next" /\ ret.last \in {"seek", "current_position"} /\ ~ret.closed)
          => ReturnedItemIs(mark.follow)
\* The iterator went back to a token taken in the middle of the listing, and
\* next() replayed the entry behind it.
C10_Witness ==
    /\ ret.op = "next"
    /\ ret.last = "seek"
    /\ ~ret.closed
    /\ ret.kind = "Ok"
    /\ mark.tok # 0
    /\ loc < Len(dirents)

\* The directory the operation's path named when the operation was called.
OrigWalk == Walk(atCall.kind, atCall.ents, Ino.root, rmOp.path)
OrigIsDir == OrigWalk.ok /\ atCall.kind[OrigWalk.ino] = "dir"
\* The tree at that directory is as it was when the operation was called.
OrigTreeIntact ==
    \A i \in TreeOf(atCall.ents, OrigWalk.ino) :
        fsKind[i] = atCall.kind[i] /\ fsEnts[i] = atCall.ents[i]
\* Nothing of that tree is left.
OrigTreeGone ==
    \A i \in TreeOf(atCall.ents, OrigWalk.ino) : fsKind[i] = "free"
\* The operation's path names now what it named at the call.
StillUnderOriginalName ==
    LET w == Walk(fsKind, fsEnts, Ino.root, rmOp.path) IN
    w.ok /\ w.ino = OrigWalk.ino

\* C4 (as claimed): during remove_recursive_atomic, in every state in which
\* path still resolves to the directory under its original name, the tree
\* under it has all of its original children.
C4_OriginalNameNeverPartlyEmptied ==
    (rmOp.kind = "atomic" /\ OrigIsDir /\ StillUnderOriginalName)
        => OrigTreeIntact

\* C5 (as claimed): on a file system that reports type hints, remove_recursive
\* of a directory tree of regular files, symlinks and subdirectories returns
\* Ok, and afterwards the path and all of the tree are gone.
C5_RemovesAnyTree ==
    (rmOp.kind = "recursive" /\ outcome.kind \in {"Ok", "Err"} /\ typeHints
        /\ OrigIsDir)
        => /\ outcome = Outcome("Ok", "none")
           /\ OrigTreeGone
           /\ ~Walk(fsKind, fsEnts, Ino.root, rmOp.path).ok

FileOps == {"open_file", "write_file", "append_file", "new_file"}

\* C6 (as claimed): a file-opening operation reached through a flags builder
\* from which the caller removed O_NOFOLLOW issues its open call without
\* O_NOFOLLOW, and a symlink to a regular file as the final component is
\* followed (new_file apart, which refuses whatever exists).
C6_WithoutNofollowFollows ==
    (lastOpen.op \in FileOps /\ O_NOFOLLOW \cap lastOpen.builderFlags = {})
        => /\ O_NOFOLLOW \cap lastOpen.osFlags = {}
           /\ (lastOpen.path = Nm.l /\ lastOpen.op # "new_file")
                 => (lastOpen.ok /\ lastOpen.opened = Nm.f)


\* ------------------------------------------------------ claims on SpecFd
\* The classification of what is open under a descriptor.
Class(e) ==
    IF e.kind = "free" THEN "none"
    ELSE IF e.kind # "dir" THEN "Other"
    ELSE IF O_PATH \subseteq e.flags THEN "Restricted" ELSE "Normal"
CloneOps == {"try_clone", "clone_upgrade", "clone_downgrade"}

\* C11, as stated: list() on a Restricted handle returns the bad-descriptor
\* error at construction and never an iterator.
C11_ListOnRestrictedFailsAtConstruction ==
    (fdLast.op = "list" /\ Class(fdLast.src) = "Restricted")
        => (~fdLast.ok /\ fdLast.err = "EBADF")

\* C11, amended: list() on a Restricted handle either fails with the
\* bad-descriptor error at construction or returns an iterator whose next()
\* returns the bad-descriptor error; no entry and no end of stream comes out.
C11_ListOnRestrictedYieldsEBADF ==
    /\ (fdLast.op = "list" /\ Class(fdLast.src) = "Restricted" /\ ~fdLast.ok)
           => fdLast.err = "EBADF"
    /\ (fdLast.op = "next" /\ Class(fdLast.src) = "Restricted")
           => fdLast.err = "EBADF"
C11_Witness ==
    /\ fdLast.op = "next"
    /\ Class(fdLast.src) = "Restricted"
    /\ fdLast.err = "EBADF"

\* C15: from_raw_fd_checked(fd) returns a Dir owning fd exactly when fd is a
\* Normal or Restricted directory, returns ENOTDIR on Other, and on any
\* failure fd is neither closed nor owned by a Dir.
C15_CheckedAdoptsOnlyDirectories ==
    fdLast.op = "from_raw_fd_checked" =>
        /\ fdLast.ok <=> Class(fdLast.src) \in {"Normal", "Restricted"}
        /\ fdLast.ok => /\ fdLast.fd = fdLast.srcFd
                        /\ dirs[fdLast.srcFd] = 1
                        /\ fdLast.srcFd \notin rawFds
        /\ Class(fdLast.src) = "Other" => fdLast.err = "ENOTDIR"
        /\ ~fdLast.ok => /\ ~fdLast.changed
                         /\ fdLast.srcFd \in FdNums => dirs[fdLast.srcFd] = 0
                         /\ Class(fdLast.src) # "none" =>
                                (IsOpen(fdt, fdLast.srcFd) /\ fdLast.srcFd \in rawFds)
C15_Witness ==
    /\ fdLast.op = "from_raw_fd_checked"
    /\ Class(fdLast.src) = "Other"
    /\ fdLast.err = "ENOTDIR"
    /\ fdLast.srcFd \in rawFds

\* C16: a clone that succeeds has the classification its operation names and
\* refers to the directory of its source; on a descriptor that is no directory
\* each clone returns ENOTDIR and creates no descriptor.
C16_CloneClassification ==
    fdLast.op \in CloneOps =>
        /\ fdLast.ok =>
             /\ Class(fdLast.src) \in {"Normal", "Restricted"}
             /\ fdLast.res.node = fdLast.src.node
             /\ fdLast.op = "try_clone" => Class(fdLast.res) = Class(fdLast.src)
             /\ fdLast.op = "clone_upgrade" => Class(fdLast.res) = "Normal"
             /\ fdLast.op = "clone_downgrade" => Class(fdLast.res) = "Restricted"
        /\ Class(fdLast.src) = "Other" =>
             (~fdLast.ok /\ fdLast.err = "ENOTDIR" /\ ~fdLast.changed)
C16_Witness ==
    /\ fdLast.op = "clone_upgrade"
    /\ Class(fdLast.src) = "Restricted"
    /\ fdLast.ok
    /\ Class(fdLast.res) = "Normal"

\* C17: no two live Dir values hold the same descriptor, every live Dir's
\* descriptor is open, no Dir holds the descriptor of a stream, and a clone
\* returns a descriptor other than its source's.
C17_NoTwoDirsShareADescriptor ==
    /\ \A fd \in FdNums :
         /\ dirs[fd] <= 1
         /\ dirs[fd] = 1 => IsOpen(fdt, fd)
    /\ stream # NoFd => dirs[stream] = 0
    /\ (fdLast.op \in CloneOps /\ fdLast.ok) => fdLast.fd # fdLast.srcFd
C17_Witness ==
    /\ fdLast.op = "drop"
    /\ Class(fdLast.src) = "Restricted"
    /\ \E fd \in FdNums : dirs[fd] = 1 /\ Class(fdt[fd]) = "Restricted"

\* C18: no close is issued on AT_FDCWD or on a number that is not open, every
\* descriptor has at most one owner, dropping a Dir closes the descriptor it
\* owns, into_raw_fd and list leave it open.
C18_EachDescriptorClosedAtMostOnce ==
    /\ closeBad = "none"
    /\ \A fd \in FdNums :
         /\ dirs[fd] + (IF fd \in rawFds THEN 1 ELSE 0)
                     + (IF stream = fd THEN 1 ELSE 0) <= 1
         /\ (dirs[fd] = 1 \/ fd \in rawFds \/ stream = fd) => IsOpen(fdt, fd)
    /\ (fdLast.op = "drop" /\ fdLast.srcFd # AT_FDCWD) =>
           (Class(fdLast.src) # "none" /\ ~IsOpen(fdt, fdLast.srcFd))
    /\ (fdLast.op \in {"into_raw_fd", "list"} /\ fdLast.srcFd # AT_FDCWD) =>
           (fdLast.changed = FALSE /\ IsOpen(fdt, fdLast.srcFd))
C18_Witness ==
    /\ fdLast.op = "drop"
    /\ fdLast.srcFd # AT_FDCWD
    /\ rawFds # {}
    /\ dirs[AT_FDCWD] = 0

\* ---------------------------------------------------- claims on SpecFlags
NewFileOps == {"Dir::new_file", "new_file"}
C12_ExistingIsRefused ==
    lastOpen.op \in NewFileOps =>
        IF lastOpen.before[lastOpen.path] # "none"
        THEN ~lastOpen.ok /\ lastOpen.err = "EEXIST" /\ entries = lastOpen.before
        ELSE /\ lastOpen.ok
             /\ lastOpen.opened = lastOpen.path
             /\ entries = [lastOpen.before EXCEPT ![lastOpen.path] = "empty"]
C12_SecondCallFails ==
    (/\ lastOpen.op \in NewFileOps
     /\ lastOpen.ok
     /\ lastOpen'.op \in NewFileOps
     /\ lastOpen'.path = lastOpen.path
     /\ lastOpen' # lastOpen) => (~lastOpen'.ok /\ lastOpen'.err = "EEXIST")

\* C12: new_file on a path that exists (file, directory or symlink) fails with
\* EEXIST and changes no entry and no contents; on an absent path, as after the
\* entry's removal, it succeeds and creates the file; of two new_file calls on
\* the same absent path, in either order, the second one fails.
C12_NewFileIsExclusive == [](C12_ExistingIsRefused) /\ [][C12_SecondCallFails]_vars
C12_Witness ==
    /\ lastOpen.op = "Dir::new_file"
    /\ lastOpen.ok
    /\ lastOpen.path = Nm.f

\* C20: the value of recv.with(x).without(y) carries (recv.flags | x) & !y and
\* the receiver is what it was; an open call through a builder uses the
\* builder's flags and leaves the builder as it was; Dir::flags() starts from
\* O_CLOEXEC, Dir::with and Dir::without from O_CLOEXEC | O_NOFOLLOW.
C20_BuildersAreValues ==
    /\ lastBuild.op # "none" =>
           lastBuild.flags = (lastBuild.from \cup lastBuild.x) \ lastBuild.y
    /\ lastBuild.op = "Dir::flags" =>
           (lastBuild.from = O_CLOEXEC /\ dirFlags.flags = lastBuild.flags)
    /\ lastBuild.op \in {"Dir::with", "Dir::without"} =>
           (lastBuild.from = O_CLOEXEC \cup O_NOFOLLOW /\ builder.flags = lastBuild.flags)
    /\ lastBuild.op = "DirMethodFlags" => builder.flags = lastBuild.from
    /\ lastBuild.op = "DirFlags" => dirFlags.flags = lastBuild.from
    /\ lastOpen.op = "open_file" => builder.flags = lastOpen.builderFlags
    /\ lastOpen.op = "DirFlags::open" => dirFlags.flags = lastOpen.builderFlags
C20_Witness ==
    /\ lastBuild.op = "DirMethodFlags"
    /\ lastBuild.from = O_CLOEXEC \cup O_NOFOLLOW
    /\ lastBuild.x = O_APPEND
    /\ lastBuild.y = O_NOFOLLOW
    /\ lastBuild.flags = O_CLOEXEC \cup O_APPEND

\* ------------------------------------------------- SpecRemove, more claims
\* The loop of remove_recursive_atomic has given up.
Exhausted == rmOp.kind = "atomic" /\ outcome = Outcome("Err", "Other")

\* The tries so far are the counters 0, 1, 2, ... in this order, each with the
\* extension of to_delete set to the counter, and none comes after a success.
TriesInOrder ==
    \A k \in DOMAIN tried :
        /\ tried[k].i = k - 1
        /\ tried[k].new = SetExtension(ToDeleteInit(rmOp.path, rmOp.tmp_dir),
                                       U16ToString(k - 1))
        /\ tried[k].ok => k = Len(tried)

\* C13 as the claim states it: remove_recursive_atomic tries the counters
\* 0, 1, 2, ... in increasing order up to and including the counter's maximum,
\* stops at the first rename that succeeds, and gives up only after every one
\* of them, the maximum included, has failed.
C13_TriesThroughMaximum ==
    /\ TriesInOrder
    /\ Exhausted => (/\ Len(tried) = CounterMax + 1
                     /\ \A k \in DOMAIN tried : ~tried[k].ok)

\* C13: remove_recursive_atomic tries the counters 0, 1, 2, ... in increasing
\* order up to the one below the counter's maximum, stops at the first rename
\* that succeeds, and gives up only after every one of them has failed; the
\* maximum itself is never tried.
C13_TriesBelowMaximum ==
    /\ TriesInOrder
    /\ \A k \in DOMAIN tried : tried[k].i < CounterMax
    /\ Exhausted => (/\ Len(tried) = CounterMax
                     /\ \A k \in DOMAIN tried : ~tried[k].ok)
    /\ (rmOp.kind = "atomic" /\ stack # <<>>) => (tried # <<>> /\ tried[Len(tried)].ok)
C13_Witness ==
    /\ Exhausted
    /\ rmOp.path = <<Nm.t0>>
    /\ Len(tried) = CounterMax
    /\ osCalled

\* C14: an operation called with a path that holds a nul byte returns the
\* invalid-input error and has made no call into the OS.
C14_NulPathIsInvalidInput ==
    (/\ rmOp.kind # "none"
     /\ ~ToCstr(rmOp.path)
     /\ outcome.kind \in {"Ok", "Err"})
        => (outcome = Outcome("Err", "InvalidInput") /\ ~osCalled)

\* --------------------------------------------------- SpecIter, more claims
\* C19: while close and stop have never been called, the stream is closed only
\* once the DirIter and every Entry it produced have been dropped, so that
\* metadata() of an Entry reaches fstatat on the open stream and returns Ok
\* (or the error of fstatat for a file that is gone), never the
\* bad-descriptor error, whether or not the iterator has advanced or has
\* been dropped.
C19_EntriesKeepTheStreamOpen ==
    ~closeCalled =>
        /\ Freed => LastHolder(iterAlive, slots)
        /\ (iterAlive \/ slots # {}) => (ptr = DirPtr /\ closedirCalls = 0)
        /\ nativeAfterClose = "none"
        /\ \A t \in Threads :
             (pc[t].op = "metadata" /\ pc[t].step = "native") => pc[t].dir = DirPtr
        /\ ret.op = "metadata" => (ret.kind = "Ok" \/ ret.err = ENOENT)
C19_Witness ==
    /\ ~closeCalled
    /\ ~iterAlive
    /\ Len(yielded) >= 2
    /\ \E s \in slots : s.name = yielded[1]
    /\ ret.op = "metadata"
    /\ ret.kind = "Ok"

\* -------------------------------------------------- SpecFlags, more claims
\* C21: Dir::sub_dir on a path whose final component is a symlink fails and
\* returns no handle, also when the symlink points to a directory; sub_dir
\* through a builder from which O_NOFOLLOW was removed follows a symlink to a
\* directory and returns a handle on that directory.
C21_SubDirAndSymlinks ==
    /\ (lastOpen.op = "sub_dir" /\ lastOpen.before[lastOpen.path] = "symlink")
         => (~lastOpen.ok /\ lastOpen.opened = <<>> /\ lastOpen.err # "none")
    /\ (/\ lastOpen.op = "flags_sub_dir"
        /\ O_NOFOLLOW \cap lastOpen.builderFlags = {}
        /\ lastOpen.before[lastOpen.path] = "symlink"
        /\ lastOpen.before[LinkTarget(lastOpen.path)] = "dir")
         => (lastOpen.ok /\ lastOpen.opened = LinkTarget(lastOpen.path))
C21_Witness ==
    /\ lastOpen.op = "flags_sub_dir"
    /\ lastOpen.builderFlags = O_CLOEXEC
    /\ lastOpen.path = Nm.k
    /\ lastOpen.ok
    /\ lastOpen.opened = Nm.d

\* ------------------------------------------------- SpecRemove, more claims
\* C22: once remove_recursive_atomic has returned Ok, in place and with a
\* staging directory alike, neither the path it was called with nor the
\* renamed entry to_delete exists, and a staging directory that was empty at
\* the call is empty again and remove_dir removes it.
C22_AtomicLeavesNothing ==
    (rmOp.kind = "atomic" /\ outcome = Outcome("Ok", "none"))
        => /\ OrigIsDir
           /\ OrigTreeGone
           /\ ~Walk(fsKind, fsEnts, Ino.root, rmOp.path).ok
           /\ ~Walk(fsKind, fsEnts, Ino.root, to_delete).ok
           /\ (rmOp.tmp_dir # <<>> /\ atCall.ents[Ino.stage] = {})
                => /\ fsEnts[Ino.stage] = {}
                   /\ Unlinkat(fsKind, fsEnts, Ino.root, rmOp.tmp_dir, TRUE).ok
C22_Witness ==
    /\ rmOp.kind = "atomic"
    /\ rmOp.tmp_dir = <<Nm.s>>
    /\ outcome = Outcome("Ok", "none")
    /\ atCall.ents[OrigWalk.ino] # {}
    /\ to_delete = <<Nm.s, Nm.t0>>

\* C24 (as claimed): after remove_recursive has returned, Ok or Err, every
\* inode outside the tree that was at path is what it was at the call, and
\* every directory outside the tree has the entries it had, the entry of the
\* tree itself apart.
C24_OutsideUntouched ==
    (rmOp.kind = "recursive" /\ outcome.kind \in {"Ok", "Err"} /\ OrigIsDir)
        => LET tree == TreeOf(atCall.ents, OrigWalk.ino) IN
           \A i \in Inos \ tree :
               /\ fsKind[i] = atCall.kind[i]
               /\ {e \in fsEnts[i] : e.ino \notin tree}
                      = {e \in atCall.ents[i] : e.ino \notin tree}

\* C25 (as claimed): on a file system that reports no type hints,
\* remove_recursive of a tree of directories still recurses into every
\* subdirectory, returns Ok, and the path and all of the tree are gone.
C25_NoHintsStillRemoved ==
    (/\ rmOp.kind = "recursive"
     /\ outcome.kind \in {"Ok", "Err"}
     /\ ~typeHints
     /\ OrigIsDir
     /\ \A i \in TreeOf(atCall.ents, OrigWalk.ino) : atCall.kind[i] = "dir")
        => /\ outcome = Outcome("Ok", "none")
           /\ OrigTreeGone
           /\ ~Walk(fsKind, fsEnts, Ino.root, rmOp.path).ok

\* The error of the call into the OS that the innermost remove_recursive
\* makes next.
ChildError ==
    IF Top.step = "list" THEN OpenDir(fsKind, fsEnts, Top.self, Top.path).err
    ELSE LET e == NextYield(Top.list, Top.l) IN
         IF e = NoEntry THEN Unlinkat(fsKind, fsEnts, Top.self, Top.path, TRUE).err
         ELSE IF e.file_type = "Dir"
              THEN OpenDir(fsKind, fsEnts, Top.self, Top.path).err
              ELSE Unlinkat(fsKind, fsEnts, Top.self, <<e.name>>, FALSE).err
\* remove_recursive has returned an error: path names the directory it named
\* at the call, and nothing that was removed is back.
C26_NoRollback ==
    (rmOp.kind = "recursive" /\ OrigIsDir /\ outcome.kind = "Err")
        => /\ StillUnderOriginalName
           /\ stack = <<>>
           /\ \A i \in Inos : /\ fsKind[i] \in {atCall.kind[i], "free"}
                              /\ fsEnts[i] \subseteq atCall.ents[i]
\* The step in which remove_recursive fails: the error returned is the error
\* of the call that failed, and the step removes nothing.
C26_FailingStep ==
    (rmOp.kind = "recursive" /\ OrigIsDir /\ outcome.kind = "running"
        /\ outcome'.kind = "Err")
        => /\ outcome'.err = ChildError
           /\ outcome'.err # "none"
           /\ fsKind' = fsKind
           /\ fsEnts' = fsEnts
\* Nothing is removed once the error has been returned.
C26_NothingAfter ==
    (rmOp.kind = "recursive" /\ outcome.kind = "Err")
        => (fsKind' = fsKind /\ fsEnts' = fsEnts)

\* C26: when a call on a child fails during remove_recursive, the call returns
\* that error unchanged, removes nothing after it, leaves path in place and
\* restores nothing that was removed before.
C26_ChildFailureAborts ==
    /\ [](C26_NoRollback)
    /\ [][C26_FailingStep]_vars
    /\ [][C26_NothingAfter]_vars
C26_Witness ==
    /\ rmOp.kind = "recursive"
    /\ OrigIsDir
    /\ outcome = Outcome("Err", "ENOENT")
    /\ StillUnderOriginalName
    /\ \E i \in TreeOf(atCall.ents, OrigWalk.ino) : fsKind[i] = "free"

\* ------------------------------------------------------- claims on SpecPair
\* The tree a call was made on held directories only, and was there.
DirsOnly(c) ==
    LET w == Walk(c.atCall.kind, c.atCall.ents, Ino.root, c.rmOp.path) IN
    /\ w.ok
    /\ \A i \in TreeOf(c.atCall.ents, w.ino) : c.atCall.kind[i] = "dir"
Running == ThreadCall(stack, outcome, rmOp, counter, to_delete, atCall, tried, osCalled)
\* Both threads have called remove_recursive_atomic, on different trees of
\* directories and with the same staging directory, and both have returned.
BothReturned ==
    /\ \A c \in {Running, other} :
         /\ c.rmOp.kind = "atomic"
         /\ c.rmOp.tmp_dir = <<Nm.s>>
         /\ c.outcome.kind \in {"Ok", "Err"}
         /\ DirsOnly(c)
    /\ Running.rmOp.path # other.rmOp.path

\* C23 (as claimed): two interleaved remove_recursive_atomic calls whose
\* candidate names collide in the staging directory both return Ok, and the
\* staging directory is empty again.
C23_CollidingCallsBothSucceed ==
    BothReturned
        => /\ Running.outcome = Outcome("Ok", "none")
           /\ other.outcome = Outcome("Ok", "none")
           /\ fsEnts[Ino.stage] = {}

\* --------------------------------------------------- claims on SpecRetarget
\* C27 (as claimed): remove_recursive("t") was called when "t" named one
\* directory; whatever is renamed into its place while the call runs, the
\* directory that was "t.0" at the call and what it holds are not removed.
C27_ReplacementUntouched ==
    (/\ rmOp.kind = "recursive"
     /\ rmOp.path = <<Nm.t>>
     /\ OrigIsDir
     /\ OrigWalk.ino = Ino.target)
        => \A i \in TreeOf(atCall.ents, Ino.block) :
               fsKind[i] = atCall.kind[i] /\ fsEnts[i] = atCall.ents[i]

\* ------------------------------------------------- claims on SpecFd, more
\* C28 (as claimed): when list() returns an error, the descriptor it took
\* from the Dir has been closed, and no descriptor is open that neither a
\* Dir, nor the stream, nor the caller owns.
C28_FailedListClosesDescriptor ==
    /\ (fdLast.op = "list" /\ ~fdLast.ok /\ fdLast.srcFd \in FdNums)
         => ~IsOpen(fdt, fdLast.srcFd)
    /\ \A fd \in FdNums :
         IsOpen(fdt, fd) => (dirs[fd] > 0 \/ fd \in rawFds \/ stream = fd)

\* The operations of the crate that return a Dir on a new descriptor.
CreatingOps == {"open", "flags_open", "sub_dir"} \cup CloneOps
\* C29 (as claimed): the descriptor of every Dir that Dir::open, sub_dir,
\* try_clone, clone_upgrade or clone_downgrade returns is close-on-exec, for
\* Normal and Restricted sources alike.
C29_NewDescriptorsAreCloexec ==
    fdLast.op \in CreatingOps => ~fdLast.inheritable

\* ----------------------------------------------------- claims on SpecMeta
\* The file type of a status structure: st_mode without its low twelve bits.
IsDevice(s) == (s.st_mode \div 4096) * 4096 \in {S_IFBLK, S_IFCHR}
\* C30 (as claimed): rdev() is Some(st_rdev) for every block or character
\* device, whatever its permission bits, and None for every other file type;
\* rdev_major() and rdev_minor() are Some exactly when rdev() is.
C30_RdevForEveryDevice ==
    /\ metaLast.op = "rdev" =>
          metaLast.ret = (IF IsDevice(stat) THEN Some(stat.st_rdev) ELSE None)
    /\ metaLast.op \in {"rdev_major", "rdev_minor"} =>
          (metaLast.ret.some <=> IsDevice(stat))
    /\ metaLast.op \in {"rdev_major", "rdev_minor"} =>
          (metaLast.ret.some <=> Rdev(stat).some)
====
